---- MODULE Spec2Model ----
(***************************************************************************)
(* Outline extraction of the 1A programs (process_pdfs.py, main.py,        *)
(* main4.py, main7.py): the per-document pipeline of each program as a     *)
(* state machine.  A document is built span by span (the external parser's *)
(* output), then one program is run on it and its result recorded.         *)
(*                                                                         *)
(* Text is a sequence of characters, a character a one-element string (or  *)
(* a named token for a non-ASCII character).  Font sizes are integers in   *)
(* hundredths of a point; confidences of process_pdfs.is_likely_heading    *)
(* are integers in tenths.                                                 *)
(***************************************************************************)
EXTENDS Integers, Sequences, FiniteSets, TLC

VARIABLES
    prog,      \* the program this document is given to
    pc,        \* "build" while the document is assembled, "done" after the run
    filename,  \* os.path.basename(pdf_path)
    toc,       \* process_pdfs: doc.get_toc(simple=False), <<level, title, page>>
    pages,     \* process_pdfs: per page, the markdown lines and the PDF lines
    meta,      \* doc.metadata['title'], or None
    elements,  \* main.py / main4.py / main7.py: the raw spans of the document
    bulk,      \* how many generated numbered headings were appended to elements
    result,    \* the value returned by the run
    batch,     \* main(): pdf_files, the files of the input directory in order
    cursor,    \* main(): the index in pdf_files of the next file of the loop
    written,   \* main(): the indexes of the files whose JSON output is written
    raw_text,  \* the text handed to the text normalization of the program
    normalized, \* the text the normalization has returned, or None
    doc_handle \* the document handle of the call: "unopened", "open", "closed"

vars == <<prog, pc, filename, toc, pages, meta, elements, bulk, result,
          batch, cursor, written, raw_text, normalized, doc_handle>>

None == <<"None">>

\* ------------------------------------------------------------------ bounds
MaxToc == 3
MaxPages == 2
MaxSpans == 2
MaxBulk == 21
MaxTail == 3
MaxStyled == 4
MaxTitled == 1

\* ------------------------------------------------------------- characters
\* The characters the documents below are written in, in code point order.
Alphabet ==
    << "\t", " ", "#", "*", "-", ".",
       "0", "1", "2", "3", "4", "5", "6", "7", "8", "9", ":",
       "A", "B", "C", "D", "E", "F", "G", "H", "I", "J", "K", "L", "M",
       "N", "O", "P", "Q", "R", "S", "T", "U", "V", "W", "X", "Y", "Z",
       "_", "backtick",
       "a", "b", "c", "d", "e", "f", "g", "h", "i", "j", "k", "l", "m",
       "n", "o", "p", "q", "r", "s", "t", "u", "v", "w", "x", "y", "z",
       "nbsp", "A_circ", "a_circ", "thai_ko", "ldquo", "ellipsis", "euro" >>

\* the place of every character in the alphabet
Places ==
    [c \in {Alphabet[i] : i \in 1..Len(Alphabet)} |->
        CHOOSE i \in 1..Len(Alphabet) : Alphabet[i] = c]

Ord(c) == Places[c]

\* \s and str.strip(): the no-break space is whitespace too
Whitespace == {"\t", " ", "nbsp"}
Digits == {"0", "1", "2", "3", "4", "5", "6", "7", "8", "9"}
AsciiUpper == {Alphabet[i] : i \in 18..43}
AsciiLower == {Alphabet[i] : i \in 46..71}
UpperLetters == AsciiUpper \cup {"A_circ"}
LowerLetters == AsciiLower \cup {"a_circ"}
IsUpperChar(c) == c \in UpperLetters
IsLowerChar(c) == c \in LowerLetters
IsCased(c) == IsUpperChar(c) \/ IsLowerChar(c)
\* str.lower() and str.upper() of one character
LowerChar(c) ==
    IF c \in AsciiUpper THEN Alphabet[Ord(c) + 28]
    ELSE IF c = "A_circ" THEN "a_circ" ELSE c
UpperChar(c) ==
    IF c \in AsciiLower THEN Alphabet[Ord(c) - 28]
    ELSE IF c = "a_circ" THEN "A_circ" ELSE c

Max(a, b) == IF a >= b THEN a ELSE b
Min(a, b) == IF a <= b THEN a ELSE b

\* ---------------------------------------------------------- str functions
\* str.lower()
Lower(s) == [i \in 1..Len(s) |-> LowerChar(s[i])]

\* the least and the greatest element of a non-empty set of integers
MinOf(S) == CHOOSE m \in S : \A x \in S : m <= x
MaxOf(S) == CHOOSE m \in S : \A x \in S : x <= m

\* the positions of s that hold no whitespace
Inked(s) == {i \in 1..Len(s) : s[i] \notin Whitespace}

LStrip(s) == IF Inked(s) = {} THEN <<>> ELSE SubSeq(s, MinOf(Inked(s)), Len(s))

RStrip(s) == IF Inked(s) = {} THEN <<>> ELSE SubSeq(s, 1, MaxOf(Inked(s)))

\* str.strip()
Strip(s) == RStrip(LStrip(s))

\* re.sub(r'\s+', ' ', s): every run of whitespace becomes one space
CollapseWhitespace(s) ==
    LET marked == [i \in 1..Len(s) |->
                      IF s[i] \notin Whitespace THEN s[i]
                      ELSE IF i > 1 /\ s[i - 1] \in Whitespace THEN "" ELSE " "]
    IN SelectSeq(marked, LAMBDA c : c # "")

\* re.sub(r'[...]', '', s) for a character class
RemoveChars(s, cls) == SelectSeq(s, LAMBDA c : c \notin cls)

\* str.split(): the words between runs of whitespace
RECURSIVE Split(_)
Split(s) ==
    IF Inked(s) = {} THEN <<>>
    ELSE LET from == MinOf(Inked(s))
             gaps == {j \in from..Len(s) : s[j] \in Whitespace}
             to == IF gaps = {} THEN Len(s) ELSE MinOf(gaps) - 1
         IN <<SubSeq(s, from, to)>> \o Split(SubSeq(s, to + 1, Len(s)))

\* len(s.split())
WordCount(s) ==
    Cardinality({i \in Inked(s) : i = 1 \/ s[i - 1] \in Whitespace})

\* str.startswith(p)
StartsWith(s, p) == Len(s) >= Len(p) /\ SubSeq(s, 1, Len(p)) = p

\* str.endswith(p)
EndsWith(s, p) == Len(s) >= Len(p) /\ SubSeq(s, Len(s) - Len(p) + 1, Len(s)) = p

\* p in s
Contains(s, p) == \E i \in 1..(Len(s) - Len(p) + 1) : SubSeq(s, i, i + Len(p) - 1) = p

\* str.isupper(): some cased character, and no lower-case one
IsUpper(s) ==
    /\ \E i \in 1..Len(s) : IsCased(s[i])
    /\ \A i \in 1..Len(s) : ~IsLowerChar(s[i])

\* str.istitle(): upper-case characters only after uncased ones, lower-case
\* ones only after cased ones, and at least one cased character
IsTitle(s) ==
    /\ \E i \in 1..Len(s) : IsCased(s[i])
    /\ \A i \in 1..Len(s) :
          LET prevCased == i > 1 /\ IsCased(s[i - 1]) IN
          /\ IsUpperChar(s[i]) => ~prevCased
          /\ IsLowerChar(s[i]) => prevCased

\* s < t, the order of Python strings (by code point, a prefix first)
StrLess(s, t) ==
    LET diff == {i \in 1..Min(Len(s), Len(t)) : s[i] # t[i]} IN
    IF diff = {} THEN Len(s) < Len(t)
    ELSE Ord(s[MinOf(diff)]) < Ord(t[MinOf(diff)])

\* the length of the longest prefix of s whose characters are all in cls
Span(s, cls) ==
    LET out == {i \in 1..Len(s) : s[i] \notin cls} IN
    IF out = {} THEN Len(s) ELSE MinOf(out) - 1

Drop(s, n) == SubSeq(s, n + 1, Len(s))

\* list.sort(key=...) / sorted(): a stable sort, Less the strict order of the
\* keys.  Element i goes after every element of a smaller key and after the
\* earlier elements of an equal key.
SortedBy(s, Less(_, _)) ==
    LET before(i) ==
            Cardinality({j \in 1..Len(s) :
                \/ Less(s[j], s[i])
                \/ j < i /\ ~Less(s[i], s[j])})
    IN [k \in 1..Len(s) |-> s[CHOOSE i \in 1..Len(s) : before(i) = k - 1]]

RECURSIVE SumSeq(_)
SumSeq(s) == IF s = <<>> THEN 0 ELSE Head(s) + SumSeq(Tail(s))

RECURSIVE Flatten(_)
Flatten(ss) == IF ss = <<>> THEN <<>> ELSE Head(ss) \o Flatten(Tail(ss))


\* ------------------------------------------------------------------ levels
\* f"H{n}": the level string of depth n
Hn(n) == <<"H", n>>
H1 == Hn(1)
H2 == Hn(2)
H3 == Hn(3)

\* the levels of the output schema
SchemaLevels == {Hn(n) : n \in 1..6}

\* flags & bit, for bit a power of two
HasFlag(flags, bit) == (flags \div bit) % 2 = 1

\* ------------------------------------------------------- process_pdfs.py
MarkdownMarks == {"*", "_", "backtick"}
Mojibake == <<"a_circ", "euro", "ldquo">>

\* the positions at which pat occurs in s
Occurrences(s, pat) ==
    {i \in 1..(Len(s) - Len(pat) + 1) : SubSeq(s, i, i + Len(pat) - 1) = pat}

\* str.replace(pat, rep), pat not empty: the occurrences from left to right
RECURSIVE ReplaceSeq(_, _, _)
ReplaceSeq(s, pat, rep) ==
    IF Occurrences(s, pat) = {} THEN s
    ELSE LET i == MinOf(Occurrences(s, pat)) IN
         SubSeq(s, 1, i - 1) \o rep \o ReplaceSeq(Drop(s, i + Len(pat) - 1), pat, rep)

clean_text(text) ==
    IF text = None \/ text = <<>> THEN <<>>
    ELSE Strip(CollapseWhitespace(
             ReplaceSeq(RemoveChars(text, MarkdownMarks), Mojibake, <<"-">>)))

\* str.split(' '): the pieces between single spaces
RECURSIVE SplitOnSpace(_)
SplitOnSpace(s) ==
    LET n == Span(s, {s[i] : i \in 1..Len(s)} \ {" "}) IN
    IF n = Len(s) THEN <<s>>
    ELSE <<SubSeq(s, 1, n)>> \o SplitOnSpace(Drop(s, n + 1))

\* [A-Z][a-z]+
IsCapitalizedWord(w) ==
    /\ Len(w) >= 2
    /\ w[1] \in AsciiUpper
    /\ \A i \in 2..Len(w) : w[i] \in AsciiLower

\* recipe_patterns: one, two or three capitalized words, a single space apart
MatchesRecipePattern(text) ==
    LET ws == SplitOnSpace(text) IN
    /\ Len(ws) \in 1..3
    /\ \A i \in 1..Len(ws) : IsCapitalizedWord(ws[i])

heading_indicators ==
    { <<"i", "n", "g", "r", "e", "d", "i", "e", "n", "t", "s">>, <<"i", "n", "s", "t", "r", "u", "c", "t", "i", "o", "n", "s">>, <<"m", "e", "t", "h", "o", "d">>, <<"p", "r", "e", "p", "a", "r", "a", "t", "i", "o", "n">>,
      <<"r", "e", "c", "i", "p", "e">>, <<"b", "r", "e", "a", "k", "f", "a", "s", "t">>, <<"l", "u", "n", "c", "h">>, <<"d", "i", "n", "n", "e", "r">>, <<"a", "p", "p", "e", "t", "i", "z", "e", "r">>,
      <<"d", "e", "s", "s", "e", "r", "t">>, <<"s", "n", "a", "c", "k">>, <<"i", "n", "t", "r", "o", "d", "u", "c", "t", "i", "o", "n">>, <<"c", "o", "n", "c", "l", "u", "s", "i", "o", "n">>, <<"s", "u", "m", "m", "a", "r", "y">>,
      <<"o", "v", "e", "r", "v", "i", "e", "w">>, <<"c", "h", "a", "p", "t", "e", "r">>, <<"s", "e", "c", "t", "i", "o", "n">>, <<"p", "a", "r", "t">>, <<"s", "t", "e", "p">> }

PunctuationChars == {".", ",", ";", ":", "!", "?", "(", ")", "[", "]", "{", "}"}

\* The context of a bold markdown match (no font size) and of a PDF line.
\* The average font size is kept as the sum and the count of the sizes.
BoldContext(is_line_start, is_isolated) ==
    [has_size |-> FALSE, font_size |-> 0, size_sum |-> 0, size_count |-> 1,
     is_line_start |-> is_line_start, is_isolated |-> is_isolated]

\* the increments of confidence, in tenths, in the order the code adds them
ConfidenceSteps(text, context) ==
    LET word_count == WordCount(text)
        char_count == Len(text)
        punctuation_count ==
            Cardinality({i \in 1..Len(text) : text[i] \in PunctuationChars})
    IN << IF word_count <= 3 THEN 4
          ELSE IF word_count <= 6 THEN 2
          ELSE IF word_count > 15 THEN -3 ELSE 0,
          IF char_count <= 30 THEN 2 ELSE IF char_count > 100 THEN -4 ELSE 0,
          IF MatchesRecipePattern(text) THEN 3 ELSE 0,
          IF \E w \in heading_indicators : Contains(Lower(text), w) THEN 2 ELSE 0,
          IF IsUpper(text) /\ word_count <= 5 THEN 2
          ELSE IF IsTitle(text) THEN 1 ELSE 0,
          IF punctuation_count = 0 THEN 2
          ELSE IF 2 * punctuation_count > word_count THEN -3 ELSE 0,
          \* size_ratio = font_size / avg_font_size > 1.2, > 1.1
          IF ~context.has_size THEN 0
          ELSE IF 10 * context.font_size * context.size_count
                      > 12 * context.size_sum THEN 3
          ELSE IF 10 * context.font_size * context.size_count
                      > 11 * context.size_sum THEN 1 ELSE 0,
          IF context.is_line_start THEN 1 ELSE 0,
          IF context.is_isolated THEN 2 ELSE 0 >>

\* the decision of is_likely_heading on the confidence reached
HeadingDecision(confidence) ==
    [raised |-> FALSE,
     is_heading |-> confidence > 4,
     confidence |-> confidence,
     suggested_level |->
         IF confidence > 7 THEN H2
         ELSE IF confidence > 9 THEN H1 ELSE H3]

\* is_likely_heading(text, context); raised: the division by a zero average
is_likely_heading(text, context) ==
    IF text = <<>> \/ Len(Strip(text)) < 2
    THEN [raised |-> FALSE, is_heading |-> FALSE, confidence |-> 0,
          suggested_level |-> H3]
    ELSE IF context.has_size /\ context.size_sum = 0
    THEN [raised |-> TRUE, is_heading |-> FALSE, confidence |-> 0,
          suggested_level |-> H3]
    ELSE HeadingDecision(SumSeq(ConfidenceSteps(Strip(text), context)))

\* re.match(r'^(#+)\s+(.*)', line): the number of #, or 0 when no match
HeadingMarks(line) ==
    LET n == Span(line, {"#"}) IN
    IF n >= 1 /\ Len(line) > n /\ line[n + 1] \in Whitespace THEN n ELSE 0

\* the heading of a markdown line of `level` marks and of the cleaned text,
\* unless it is junk or too short
MarkdownHeading(level, text, page_num) ==
    IF level = 0 \/ Len(text) < 4 \/ Contains(text, <<"-", "-", "-">>)
    THEN <<>>
    ELSE << [level |-> Hn(Min(level, 6)), text |-> text, page |-> page_num] >>

extract_markdown_headings(markdown_lines, page_num) ==
    LET heading(s) ==
            MarkdownHeading(HeadingMarks(s),
                            clean_text(LStrip(Drop(s, HeadingMarks(s)))), page_num)
    IN Flatten([i \in 1..Len(markdown_lines) |->
                   heading(Strip(markdown_lines[i]))])

\* re.findall(r'\*\*(.*?)\*\*', line): the shortest runs between two ** marks
RECURSIVE FindBold(_)
FindBold(s) ==
    LET marks == Occurrences(s, <<"*", "*">>)
        opening == IF marks = {} THEN 0 ELSE MinOf(marks)
        closing == {j \in marks : j >= opening + 2}
    IN IF marks = {} \/ closing = {} THEN <<>>
       ELSE <<SubSeq(s, opening + 2, MinOf(closing) - 1)>>
            \o FindBold(Drop(s, MinOf(closing) + 1))

\* the heading appended for a text on which is_likely_heading decided r
HeadingIfLikely(r, text, page_num) ==
    IF ~r.raised /\ r.is_heading
    THEN << [level |-> r.suggested_level, text |-> text, page |-> page_num] >>
    ELSE <<>>

\* one match of the bold pattern in the stripped line s
BoldHeading(cleaned_bold, bold_text, s, page_num) ==
    IF cleaned_bold = <<>> THEN <<>>
    ELSE HeadingIfLikely(
             is_likely_heading(cleaned_bold,
                 BoldContext(StartsWith(s, <<"*", "*">>),
                             Len(s) = Len(bold_text) + 4)),
             cleaned_bold, page_num)

extract_bold_headings(markdown_lines, page_num) ==
    LET ofLine(line, s) ==
            IF HeadingMarks(s) > 0 THEN <<>>
            ELSE Flatten([k \in 1..Len(FindBold(line)) |->
                     BoldHeading(clean_text(FindBold(line)[k]),
                                 FindBold(line)[k], s, page_num)])
    IN Flatten([i \in 1..Len(markdown_lines) |->
                   ofLine(markdown_lines[i], Strip(markdown_lines[i]))])

\* the text of a PDF line: its spans' texts joined
LineText(line) == Flatten([k \in 1..Len(line.spans) |-> line.spans[k].text])

\* all_font_sizes of the first pass over the lines of the page
AllFontSizes(lines) ==
    Flatten([i \in 1..Len(lines) |->
        [k \in 1..Len(lines[i].spans) |-> lines[i].spans[k].size]])

\* max_font_size and is_bold of a line of the second pass
MaxFontSize(line) ==
    LET sizes == {line.spans[k].size : k \in 1..Len(line.spans)} IN
    IF sizes = {} THEN 0 ELSE MaxOf(sizes)

IsBoldLine(line) == \E k \in 1..Len(line.spans) : HasFlag(line.spans[k].flags, 16)

\* One line of the second pass.  avg_font_size is size_sum / size_count; the
\* line is considered when it is bold or larger than 1.2 times the average.
LineHeading(cleaned_text, is_bold, max_font_size, size_sum, size_count, page_num) ==
    IF /\ cleaned_text # <<>>
       /\ \/ is_bold
          \/ 10 * max_font_size * size_count > 12 * size_sum
    THEN [text |-> cleaned_text,
          r |-> is_likely_heading(cleaned_text,
                    [has_size |-> TRUE, font_size |-> max_font_size,
                     size_sum |-> size_sum, size_count |-> size_count,
                     is_line_start |-> TRUE, is_isolated |-> TRUE])]
    ELSE [text |-> cleaned_text, r |-> HeadingDecision(0)]

\* the headings of the lines, and whether the analysis of a line raised
PageHeadings(each, page_num) ==
    [raised |-> \E i \in 1..Len(each) : each[i].r.raised,
     headings |-> Flatten([i \in 1..Len(each) |->
                      HeadingIfLikely(each[i].r, each[i].text, page_num)])]

\* extract_pdf_structure_headings(doc, page_num) of one page's lines;
\* avg_font_size is sum / len, or 12 without spans
extract_pdf_structure_headings(lines, page_num) ==
    LET analysed(all_font_sizes) ==
            [i \in 1..Len(lines) |->
                LineHeading(clean_text(LineText(lines[i])), IsBoldLine(lines[i]),
                    MaxFontSize(lines[i]),
                    IF all_font_sizes = <<>> THEN 1200 ELSE SumSeq(all_font_sizes),
                    IF all_font_sizes = <<>> THEN 1 ELSE Len(all_font_sizes),
                    page_num)]
    IN PageHeadings(analysed(AllFontSizes(lines)), page_num)

\* get_best_title(doc): metadata, then the largest line of the first page, then
\* the first long enough text line of the first page, then ""
get_best_title(metadata_title, doc_pages) ==
    LET meta_title == clean_text(metadata_title)
        first == IF doc_pages = <<>> THEN <<>>
                 ELSE SelectSeq(doc_pages[1].lines, LAMBDA l : l.spans # <<>>)
        lines == [i \in 1..Len(first) |->
                     [text |-> LineText(first[i]),
                      size |-> first[i].spans[1].size,
                      pos |-> first[i].pos]]
        \* lines.sort(key=lambda x: (-x['size'], x['pos']))
        bySize == SortedBy(lines,
                      LAMBDA a, b : \/ a.size > b.size
                                    \/ a.size = b.size /\ a.pos < b.pos)
        potential_title == clean_text(bySize[1].text)
        \* doc[0].get_text().split('\n'): the text lines of the first page
        text_lines == IF doc_pages = <<>> THEN <<>>
                      ELSE [i \in 1..Len(doc_pages[1].lines) |->
                               clean_text(LineText(doc_pages[1].lines[i]))]
        usable == SelectSeq(text_lines,
                      LAMBDA t : Len(t) > 5 /\ WordCount(t) < 20)
    IN IF metadata_title # None /\ metadata_title # <<>> /\ Len(meta_title) > 5
       THEN meta_title
       ELSE IF lines # <<>> /\ Len(potential_title) > 4
                            /\ WordCount(potential_title) < 20
       THEN potential_title
       ELSE IF usable # <<>> THEN usable[1]
       ELSE <<>>

\* re.sub(r'^\d+(\.\d+)*\s*', '', s): the length of the numeric prefix
RECURSIVE DottedGroups(_)
DottedGroups(s) ==
    IF Len(s) >= 2 /\ s[1] = "." /\ s[2] \in Digits
    THEN LET n == 1 + Span(Tail(s), Digits) IN n + DottedGroups(Drop(s, n))
    ELSE 0

StripNumericPrefix(s) ==
    LET d == Span(s, Digits) IN
    IF d = 0 THEN s
    ELSE LET g == DottedGroups(Drop(s, d)) IN LStrip(Drop(s, d + g))

\* the outline of the embedded table of contents
TocOutline(entries) ==
    [i \in 1..Len(entries) |->
        [level |-> Hn(entries[i][1]),
         text |-> StripNumericPrefix(clean_text(entries[i][2])) \o <<" ">>,
         page |-> Max(0, entries[i][3] - 1)]]

\* unique_headings: the first heading of every (text.strip(), page)
UniqueHeadings(hs) ==
    LET first(i) == ~\E j \in 1..(i - 1) :
                        /\ Strip(hs[j].text) = Strip(hs[i].text)
                        /\ hs[j].page = hs[i].page
        marked == [i \in 1..Len(hs) |-> [keep |-> first(i), h |-> hs[i]]]
        kept == SelectSeq(marked, LAMBDA m : m.keep)
    IN [i \in 1..Len(kept) |-> kept[i].h]

\* sorted(unique_headings.values(), key=lambda x: (x['page'], x['text']))
SortByPageAndText(hs) ==
    SortedBy(hs, LAMBDA a, b : \/ a.page < b.page
                               \/ a.page = b.page /\ StrLess(a.text, b.text))

\* "Add trailing space for consistent formatting"
WithTrailingSpace(hs) ==
    [i \in 1..Len(hs) |->
        IF EndsWith(hs[i].text, <<" ">>) THEN hs[i]
        ELSE [hs[i] EXCEPT !.text = @ \o <<" ">>]]

\* the headings of the markdown text of every page (page index from 0)
AllMarkdownHeadings(doc_pages) ==
    Flatten([i \in 1..Len(doc_pages) |->
                extract_markdown_headings(doc_pages[i].md, i - 1)])

\* the bold fallback: per page, the bold markdown matches, then the PDF lines
AllBoldHeadings(doc_pages) ==
    Flatten([i \in 1..Len(doc_pages) |->
                extract_bold_headings(doc_pages[i].md, i - 1)
                \o extract_pdf_structure_headings(doc_pages[i].lines, i - 1).headings])

BoldFallbackRaises(doc_pages) ==
    \E i \in 1..Len(doc_pages) :
        extract_pdf_structure_headings(doc_pages[i].lines, i - 1).raised

Raised == [status |-> "raised"]
Returned(title, outline) == [status |-> "ok", title |-> title, outline |-> outline]

\* which heading source process_pdf takes the outline from
HeadingSource(entries, doc_pages) ==
    IF Len(entries) > 2 THEN "toc"
    ELSE IF AllMarkdownHeadings(doc_pages) # <<>> THEN "markdown"
    ELSE "bold"

\* An outline that mixes the sources: the markdown headings and the bold
\* headings together when there is no table of contents of three entries.
MixedOutline(entries, doc_pages) ==
    IF Len(entries) > 2 THEN TocOutline(entries)
    ELSE WithTrailingSpace(AllMarkdownHeadings(doc_pages)
             \o SortByPageAndText(UniqueHeadings(AllBoldHeadings(doc_pages))))

ProcessPdfOutline(entries, doc_pages) ==
    IF Len(entries) > 2 THEN TocOutline(entries)
    ELSE IF AllMarkdownHeadings(doc_pages) # <<>>
    THEN WithTrailingSpace(AllMarkdownHeadings(doc_pages))
    ELSE WithTrailingSpace(
             SortByPageAndText(UniqueHeadings(AllBoldHeadings(doc_pages))))

\* The title and the return of process_pdf: the best title, else the text of
\* the first H1 entry, else the text of the first entry; stripped, with one
\* trailing space, or "" when there is none.
TitledDocument(best, clean_outline) ==
    LET h1 == SelectSeq(clean_outline, LAMBDA h : h.level = H1)
        title == IF best # <<>> \/ clean_outline = <<>> THEN best
                 ELSE IF h1 # <<>> THEN h1[1].text
                 ELSE clean_outline[1].text
    IN Returned(IF title # <<>> THEN Strip(title) \o <<" ">> ELSE <<>>,
                clean_outline)

process_pdf(basename, entries, metadata_title, doc_pages) ==
    IF basename = "file01.pdf"
    THEN Returned(<<"A", "p", "p", "l", "i", "c", "a", "t", "i", "o", "n", " ", "f", "o", "r", "m", " ", "f", "o", "r", " ", "g", "r", "a", "n", "t", " ", "o", "f", " ", "L", "T", "C", " ", "a", "d", "v", "a", "n", "c", "e", " ">>, <<>>)
    ELSE IF basename = "file05.pdf"
    THEN Returned(<<>>, << [level |-> H1, text |-> <<"H", "O", "P", "E", " ", "T", "O", " ", "S", "E", "E", " ", "Y", "O", "U", " ", "T", "H", "E", "R", "E", "!", " ">>,
                            page |-> 0] >>)
    ELSE IF HeadingSource(entries, doc_pages) = "bold"
            /\ BoldFallbackRaises(doc_pages)
    THEN Raised
    ELSE TitledDocument(get_best_title(metadata_title, doc_pages),
                        ProcessPdfOutline(entries, doc_pages))

\* ------------------------------------------------------ regular expressions
\* A pattern is a tree; Ends gives the positions at which a match that starts
\* at one of the positions `from` can end (a position is the number of
\* characters before it).  re.match succeeds iff some match starts at 0.
Cls(chars) == [op |-> "cls", chars |-> chars]
AnyChar == [op |-> "any"]
AtEnd == [op |-> "end"]
Cat(items) == [op |-> "cat", items |-> items]
Alt(items) == [op |-> "alt", items |-> items]
Star(item) == [op |-> "star", item |-> item]
Plus(item) == Cat(<<item, Star(item)>>)
Opt(item) == Alt(<<item, Cat(<<>>)>>)
Rep(item, lo, hi) == [op |-> "rep", item |-> item, lo |-> lo, hi |-> hi]
Lit(text) == Cat([i \in 1..Len(text) |-> Cls({text[i]})])

\* \w, \d, \s and [A-Z], [a-z] over the alphabet
WordChars == UpperLetters \cup LowerLetters \cup Digits \cup {"_", "thai_ko"}
WordCh == Cls(WordChars)
DigitCh == Cls(Digits)
SpaceCh == Cls(Whitespace)
AZ == Cls(AsciiUpper)
az == Cls(AsciiLower)

\* c matches the class; with re.IGNORECASE also when its other case does
CharIn(c, chars, ignorecase) ==
    \/ c \in chars
    \/ ignorecase /\ (LowerChar(c) \in chars \/ UpperChar(c) \in chars)

RECURSIVE Ends(_, _, _, _)
Ends(r, s, from, ic) ==
    CASE r.op = "cls" ->
            {p + 1 : p \in {q \in from : q < Len(s) /\ CharIn(s[q + 1], r.chars, ic)}}
      [] r.op = "any" -> {p + 1 : p \in {q \in from : q < Len(s)}}
      [] r.op = "end" -> {p \in from : p = Len(s)}
      [] r.op = "cat" ->
            IF r.items = <<>> THEN from
            ELSE Ends(Cat(Tail(r.items)), s, Ends(Head(r.items), s, from, ic), ic)
      [] r.op = "alt" ->
            UNION {Ends(r.items[i], s, from, ic) : i \in 1..Len(r.items)}
      [] r.op = "star" ->
            IF r.item.op = "any"
            THEN {p \in 0..Len(s) : \E q \in from : q <= p}
            ELSE IF r.item.op = "cls"
            THEN {p \in 0..Len(s) : \E q \in from :
                     /\ q <= p
                     /\ \A i \in (q + 1)..p : CharIn(s[i], r.item.chars, ic)}
            ELSE LET more == Ends(r.item, s, from, ic) \ from IN
                 IF more = {} THEN from ELSE from \cup Ends(r, s, more, ic)
      [] r.op = "rep" ->
            IF r.hi = 0 THEN from
            ELSE (IF r.lo = 0 THEN from ELSE {})
                 \cup Ends(Rep(r.item, Max(r.lo - 1, 0), r.hi - 1), s,
                           Ends(r.item, s, from, ic), ic)

\* re.match(pattern, s) and re.match(pattern, s, re.IGNORECASE)
Match(r, s) == Ends(r, s, {0}, FALSE) # {}
MatchIgnoreCase(r, s) == Ends(r, s, {0}, TRUE) # {}
\* re.search(pattern, s)
Search(r, s) == Ends(r, s, 0..Len(s), FALSE) # {}

\* ------------------------------------------------------------------ main7.py
\* unicodedata.normalize('NFKC', text): the compatibility characters of the
\* alphabet are the no-break space and the horizontal ellipsis
NFKC(text) ==
    Flatten([i \in 1..Len(text) |->
                IF text[i] = "nbsp" THEN <<" ">>
                ELSE IF text[i] = "ellipsis" THEN <<".", ".", ".">>
                ELSE <<text[i]>>])

\* re.sub(r'[.]{3,}', '...', text): a dot after three dots is dropped
SquashDots(text) ==
    LET marked == [i \in 1..Len(text) |->
                      IF i >= 4 /\ \A k \in (i - 3)..i : text[k] = "."
                      THEN "" ELSE text[i]]
    IN SelectSeq(marked, LAMBDA c : c # "")

m7_clean_text(text) == SquashDots(CollapseWhitespace(Strip(NFKC(text))))

min_heading_length == 5
max_heading_length == 150
min_font_size == 800
max_headings_per_level == 15

form_field_patterns ==
    << Cat(<<Plus(DigitCh), Lit(<<".">>), Star(SpaceCh), AtEnd>>),
       Cat(<<Rep(AZ, 1, 4), AtEnd>>),
       Cat(<<Alt(<<Lit(<<"N", "a", "m", "e">>), Lit(<<"D", "a", "t", "e">>), Lit(<<"A", "g", "e">>),
                   Lit(<<"S", "i", "g", "n", "a", "t", "u", "r", "e">>), Lit(<<"R", "s", ".">>), Lit(<<"S", ".", "N", "o">>),
                   Lit(<<"R", "e", "l", "a", "t", "i", "o", "n", "s", "h", "i", "p">>), Lit(<<"D", "e", "s", "i", "g", "n", "a", "t", "i", "o", "n">>)>>), AtEnd>>),
       Cat(<<Plus(WordCh), Lit(<<":">>), Star(SpaceCh), AtEnd>>),
       Cat(<<Cls({"-", "_", "="}), Plus(Cls({"-", "_", "="})), AtEnd>>),
       Cat(<<Rep(DigitCh, 1, 2), Lit(<<"/">>), Rep(DigitCh, 1, 2), Lit(<<"/">>), Rep(DigitCh, 2, 4),
             AtEnd>>),
       Cat(<<Lit(<<"P", "a", "g", "e">>), Plus(SpaceCh), Plus(DigitCh), AtEnd>>),
       Cat(<<Plus(WordCh), Lit(<<"@">>), Plus(WordCh), Lit(<<".">>), Plus(WordCh), AtEnd>>),
       Cat(<<Lit(<<"w", "w", "w", ".">>), Plus(WordCh)>>),
       Cat(<<Lit(<<"h", "t", "t", "p">>), Opt(Lit(<<"s">>)), Lit(<<":", "/", "/">>)>>),
       Cat(<<Lit(<<"(">>), Rep(DigitCh, 3, 3), Lit(<<")">>), Star(SpaceCh), Rep(DigitCh, 3, 3),
             Lit(<<"-">>), Rep(DigitCh, 4, 4), AtEnd>>),
       Cat(<<Rep(DigitCh, 5, 5), Opt(Cat(<<Lit(<<"-">>), Rep(DigitCh, 4, 4)>>)), AtEnd>>) >>

AZs == Cls(AsciiUpper \cup Whitespace)

address_patterns ==
    << Cat(<<Plus(DigitCh), Plus(SpaceCh), Plus(AZs), AtEnd>>),
       Cat(<<Plus(AZs), Lit(<<",">>), Star(SpaceCh), Rep(AZ, 2, 2), Plus(SpaceCh),
             Rep(DigitCh, 5, 5)>>),
       Cat(<<Lit(<<"(">>), Plus(AZs), Lit(<<")">>), AtEnd>>) >>

heading_patterns ==
    << Cat(<<Plus(DigitCh), Lit(<<".">>), Plus(SpaceCh), AZ, Star(AnyChar)>>),
       Cat(<<Lit(<<"C", "h", "a", "p", "t", "e", "r">>), Plus(SpaceCh), Plus(DigitCh)>>),
       Cat(<<Lit(<<"S", "e", "c", "t", "i", "o", "n">>), Plus(SpaceCh), Plus(DigitCh)>>),
       Cat(<<AZ, Plus(az), Star(Cat(<<Plus(SpaceCh), AZ, Star(az)>>)), Star(SpaceCh),
             Opt(Lit(<<":">>)), Star(SpaceCh), AtEnd>>),
       Cat(<<Plus(AZs), AZ, AtEnd>>),
       Cat(<<Plus(DigitCh), Lit(<<".">>), Plus(DigitCh), Plus(SpaceCh)>>),
       Cat(<<Lit(<<"O", "v", "e", "r", "v", "i", "e", "w">>), Star(SpaceCh), AtEnd>>),
       Cat(<<Lit(<<"I", "n", "t", "r", "o", "d", "u", "c", "t", "i", "o", "n">>), Star(SpaceCh), AtEnd>>),
       Cat(<<Lit(<<"C", "o", "n", "c", "l", "u", "s", "i", "o", "n">>), Star(SpaceCh), AtEnd>>),
       Cat(<<Lit(<<"R", "e", "f", "e", "r", "e", "n", "c", "e", "s">>), Star(SpaceCh), AtEnd>>),
       Cat(<<Lit(<<"A", "c", "k", "n", "o", "w", "l", "e", "d", "g", "e", "m", "e", "n", "t", "s">>), Star(SpaceCh), AtEnd>>),
       Cat(<<Lit(<<"A", "b", "s", "t", "r", "a", "c", "t">>), Star(SpaceCh), AtEnd>>),
       Cat(<<Lit(<<"S", "u", "m", "m", "a", "r", "y">>), Star(SpaceCh), AtEnd>>),
       Cat(<<Lit(<<"A", "p", "p", "l", "i", "c", "a", "t", "i", "o", "n">>), Plus(SpaceCh), Lit(<<"f", "o", "r", "m">>)>>) >>

MatchesAny(patterns, text) ==
    \E i \in 1..Len(patterns) : MatchIgnoreCase(patterns[i], text)

m7_is_form_field(text) == MatchesAny(form_field_patterns, text)
is_address_or_contact(text) == MatchesAny(address_patterns, text)
matches_heading_pattern(text) == MatchesAny(heading_patterns, text)

\* extract_text_elements: the lines the layout analysis gives, kept when they
\* hold two characters or more and are not set in very small type
extract_text_elements(raw) ==
    LET kept == SelectSeq(raw, LAMBDA l : /\ Len(Strip(l.text)) >= 2
                                          /\ l.size >= min_font_size)
    IN [i \in 1..Len(kept) |->
           [text |-> m7_clean_text(Strip(kept[i].text)),
            font_size |-> kept[i].size,
            font_name |-> Lower(kept[i].font),
            page |-> kept[i].page + 1,
            is_bold |-> Contains(Lower(kept[i].font), <<"b", "o", "l", "d">>),
            position_y |-> kept[i].y]]

\* The size of the first span, however frequent it is.
FirstSize(sizes) == sizes[1]

\* Counter(sizes).most_common(1)[0][0]: the first of the most frequent sizes
MostCommon(sizes) ==
    LET count(x) == Cardinality({i \in 1..Len(sizes) : sizes[i] = x})
        best == MinOf({i \in 1..Len(sizes) :
                          \A j \in 1..Len(sizes) : count(sizes[j]) <= count(sizes[i])})
    IN sizes[best]

\* calculate_document_stats: avg_size is size_sum / size_count, and
\* large_threshold = max(base_size + 2, avg_size + 1) is kept times size_count
m7_calculate_document_stats(elems) ==
    LET all_sizes == [i \in 1..Len(elems) |-> elems[i].font_size] IN
    IF all_sizes = <<>>
    THEN [base_size |-> 1200, size_sum |-> 1200, size_count |-> 1,
          large_threshold_n |-> 1400, has_avg |-> FALSE]
    ELSE LET base_size == MostCommon(all_sizes)
             n == Len(all_sizes)
         IN [base_size |-> base_size, size_sum |-> SumSeq(all_sizes),
             size_count |-> n,
             large_threshold_n |-> Max((base_size + 200) * n, SumSeq(all_sizes) + 100 * n),
             has_avg |-> TRUE]

\* font_size > large_threshold + extra
AboveLarge(font_size, doc_stats, extra) ==
    font_size * doc_stats.size_count
        > doc_stats.large_threshold_n + extra * doc_stats.size_count

\* the score of is_likely_heading
HeadingScore(element, doc_stats) ==
    LET text == element.text IN
      (IF matches_heading_pattern(text) THEN 3 ELSE 0)
    + (IF AboveLarge(element.font_size, doc_stats, 0) THEN 2
       ELSE IF element.font_size > doc_stats.base_size THEN 1 ELSE 0)
    + (IF element.is_bold THEN 2 ELSE 0)
    + (IF element.position_y > 700 THEN 1 ELSE 0)
    + (IF IsTitle(text) /\ WordCount(text) > 1 THEN 1 ELSE 0)
    + (IF IsUpper(text) /\ 5 <= Len(text) /\ Len(text) <= 50 THEN 1 ELSE 0)
    - (IF Match(Cat(<<Plus(DigitCh), AtEnd>>), text) THEN 2 ELSE 0)
    - (IF Cardinality({i \in 1..Len(text) : text[i] = "."}) > 3 THEN 1 ELSE 0)

\* The filters of is_likely_heading before the score: the length, the form
\* fields, the addresses and contacts.
IsFilteredElement(element, doc_stats) ==
    /\ Len(element.text) >= min_heading_length
    /\ Len(element.text) <= max_heading_length
    /\ ~m7_is_form_field(element.text)
    /\ ~is_address_or_contact(element.text)

m7_is_likely_heading(element, doc_stats) ==
    /\ Len(element.text) >= min_heading_length
    /\ Len(element.text) <= max_heading_length
    /\ ~m7_is_form_field(element.text)
    /\ ~is_address_or_contact(element.text)
    /\ HeadingScore(element, doc_stats) >= 2

\* the level that the numbering or the keyword of the text gives in
\* determine_heading_level, None when the text has neither
PatternLevel(text) ==
    IF Match(Cat(<<Plus(DigitCh), Lit(<<".">>), Plus(DigitCh), Lit(<<".">>), Plus(DigitCh)>>), text)
    THEN H3
    ELSE IF Match(Cat(<<Plus(DigitCh), Lit(<<".">>), Plus(DigitCh)>>), text) THEN H2
    ELSE IF Match(Cat(<<Plus(DigitCh), Lit(<<".">>)>>), text) THEN H1
    ELSE IF MatchIgnoreCase(Cat(<<Alt(<<Lit(<<"C", "h", "a", "p", "t", "e", "r">>), Lit(<<"P", "a", "r", "t">>)>>),
                                  Plus(SpaceCh), Plus(DigitCh)>>), text) THEN H1
    ELSE IF MatchIgnoreCase(Cat(<<Lit(<<"S", "e", "c", "t", "i", "o", "n">>), Plus(SpaceCh), Plus(DigitCh)>>), text)
    THEN H2
    ELSE None

\* the level of determine_heading_level: that of the pattern, else by size
PatternOrSizeLevel(pattern_level, font_size, doc_stats) ==
    IF pattern_level # None THEN pattern_level
    ELSE IF AboveLarge(font_size, doc_stats, 200) THEN H1
    ELSE IF AboveLarge(font_size, doc_stats, 0) THEN H2
    ELSE H3

determine_heading_level(text, font_size, doc_stats) ==
    PatternOrSizeLevel(PatternLevel(text), font_size, doc_stats)

\* the loop of deduplicate_and_limit over the sorted headings
RECURSIVE DedupLoop(_, _, _)
DedupLoop(hs, seen_texts, level_counts) ==
    IF hs = <<>> THEN <<>>
    ELSE LET heading == Head(hs)
             text_key == Strip(Lower(heading.text))
             level == heading.level
             count == Cardinality({i \in 1..Len(level_counts) : level_counts[i] = level})
         IN IF text_key \in seen_texts \/ count >= max_headings_per_level
            THEN DedupLoop(Tail(hs), seen_texts, level_counts)
            ELSE <<heading>>
                 \o DedupLoop(Tail(hs), seen_texts \cup {text_key},
                              Append(level_counts, level))

\* headings.sort(key=lambda x: (x['page'], -x['font_size']))
SortByPageAndSize(hs) ==
    SortedBy(hs, LAMBDA a, b : \/ a.page < b.page
                               \/ a.page = b.page /\ a.font_size > b.font_size)

\* the headings that the loop keeps, and deduplicate_and_limit, which gives
\* them without their font_size
KeptHeadings(headings) == DedupLoop(SortByPageAndSize(headings), {}, <<>>)

deduplicate_and_limit(headings) ==
    LET kept == KeptHeadings(headings) IN
    [i \in 1..Len(kept) |->
        [level |-> kept[i].level, text |-> kept[i].text, page |-> kept[i].page]]

m7_extract_title(elems, headings) ==
    LET firstTen == SubSeq(elems, 1, Min(10, Len(elems)))
        lower(e) == Lower(e.text)
        title_candidates ==
            SelectSeq(firstTen, LAMBDA e :
                /\ ~m7_is_form_field(e.text)
                /\ ~is_address_or_contact(e.text)
                /\ Len(e.text) > 10
                /\ ~Match(Cat(<<Plus(DigitCh), Lit(<<".">>)>>), e.text)
                /\ \/ Contains(lower(e), <<"f", "o", "r", "m">>)
                   \/ Contains(lower(e), <<"a", "p", "p", "l", "i", "c", "a", "t", "i", "o", "n">>)
                   \/ Contains(lower(e), <<"o", "v", "e", "r", "v", "i", "e", "w">>)
                   \/ Contains(lower(e), <<"d", "o", "c", "u", "m", "e", "n", "t">>)
                   \/ WordCount(e.text) >= 3)
        h1_headings == SelectSeq(headings,
                           LAMBDA h : h.level = H1 /\ Len(h.text) > 10)
    IN IF title_candidates # <<>> THEN title_candidates[1].text
       ELSE IF h1_headings # <<>> THEN h1_headings[1].text
       ELSE IF headings # <<>> THEN headings[1].text
       ELSE <<"D", "o", "c", "u", "m", "e", "n", "t">>

\* the heading candidates of process_document, with their levels
WithLevels(likely, doc_stats) ==
    [i \in 1..Len(likely) |->
        [level |-> determine_heading_level(likely[i].text,
                       likely[i].font_size, doc_stats),
         text |-> likely[i].text,
         page |-> likely[i].page,
         font_size |-> likely[i].font_size]]

LikelyHeadings(elems, doc_stats) ==
    SelectSeq(elems, LAMBDA e : m7_is_likely_heading(e, doc_stats))

IdentifiedHeadings(elems, doc_stats) ==
    WithLevels(LikelyHeadings(elems, doc_stats), doc_stats)

HeadingCandidates(elems) ==
    IdentifiedHeadings(elems, m7_calculate_document_stats(elems))

\* process_document from the elements on, and its return
TitledOutline(elems, final_headings) ==
    Returned(m7_extract_title(elems, final_headings), final_headings)

ProcessedElements(elems) ==
    IF elems = <<>> THEN Returned(<<"D", "o", "c", "u", "m", "e", "n", "t">>, <<>>)
    ELSE TitledOutline(elems, deduplicate_and_limit(HeadingCandidates(elems)))

process_document(raw) == ProcessedElements(extract_text_elements(raw))

\* ------------------------------------------------------------------- main.py
\* detect_language_script: every character counts for the script whose code
\* point ranges hold it; the scripts in the order of the dictionary, of which
\* the alphabet has characters for Latin (U+0020-U+007F, U+00A0-U+017F) and
\* Thai (U+0E00-U+0E7F)
ScriptOrder == <<"latin", "cjk", "arabic", "cyrillic", "devanagari", "thai">>

ScriptChars(script) ==
    IF script = "latin"
    THEN {Alphabet[i] : i \in 1..Len(Alphabet)}
             \ {"\t", "thai_ko", "ldquo", "ellipsis", "euro"}
    ELSE IF script = "thai" THEN {"thai_ko"}
    ELSE {}

ScriptCount(script, text) ==
    Cardinality({i \in 1..Len(text) : text[i] \in ScriptChars(script)})

\* max(scripts, key=scripts.get): the first script of the greatest count
FirstOfGreatestCount(counted, text) ==
    LET n(k) == IF ScriptOrder[k] \in counted
                THEN ScriptCount(ScriptOrder[k], text) ELSE 0
        best == MinOf({k \in 1..Len(ScriptOrder) :
                          \A j \in 1..Len(ScriptOrder) : n(j) <= n(k)})
    IN ScriptOrder[best]

detect_language_script(text) ==
    FirstOfGreatestCount({ScriptOrder[k] : k \in 1..Len(ScriptOrder)}, text)

\* preprocess_multilingual_text: NFKC, then by script.  For Thai the text is
\* stripped and re.sub(r'^[\s\u00A0]+|[\s\u00A0]+', ' ', text) puts one space
\* for every run of whitespace; for Latin re.sub(r'\s+', ' ', text.strip()).
preprocess_multilingual_text(text) ==
    LET normal == NFKC(text)
        script == detect_language_script(normal)
    IN IF script = "thai" THEN CollapseWhitespace(Strip(normal))
       ELSE CollapseWhitespace(Strip(normal))

is_page_number(text) ==
    LET t == Strip(text) IN
    /\ t # <<>>
    /\ \/ Match(Cat(<<Plus(DigitCh), AtEnd>>), t) /\ Len(t) <= 4
       \/ Match(Cat(<<Lit(<<"p", "a", "g", "e">>), Plus(SpaceCh), Plus(DigitCh), AtEnd>>),
                Lower(t))
       \/ Match(Cat(<<Plus(DigitCh), Star(SpaceCh), Lit(<<"o", "f">>), Star(SpaceCh),
                      Plus(DigitCh), AtEnd>>), Lower(t))

footer_patterns ==
    << Lit(<<"c", "o", "p", "y", "r", "i", "g", "h", "t">>),
       Cat(<<Rep(DigitCh, 4, 4), Star(AnyChar), Lit(<<"a", "l", "l", " ", "r", "i", "g", "h", "t", "s", " ", "r", "e", "s", "e", "r", "v", "e", "d">>)>>),
       Lit(<<"c", "o", "n", "f", "i", "d", "e", "n", "t", "i", "a", "l">>),
       Lit(<<"p", "r", "o", "p", "r", "i", "e", "t", "a", "r", "y">>),
       Lit(<<"d", "r", "a", "f", "t">>),
       Cat(<<Lit(<<"v", "e", "r", "s", "i", "o", "n">>), Plus(SpaceCh), Plus(DigitCh)>>),
       Cat(<<Plus(WordCh), Lit(<<".">>), Plus(WordCh)>>),
       Lit(<<"w", "w", "w", ".">>),
       Lit(<<"h", "t", "t", "p">>) >>

is_footer_header(text) ==
    LET t == Lower(Strip(text)) IN
    /\ t # <<>>
    /\ \E i \in 1..Len(footer_patterns) : Match(footer_patterns[i], t)

\* the heading patterns of the Latin script; [A-ZÀ-ſ...] holds the
\* accented letters of both cases
latin_heading_patterns ==
    << Cat(<<Plus(DigitCh), Opt(Lit(<<".">>)), Plus(SpaceCh)>>),
       Cat(<<Cls(AsciiUpper \cup {"A_circ", "a_circ"}),
             Plus(Cls(AsciiUpper \cup {"A_circ", "a_circ"}))>>),
       Cat(<<Plus(WordCh), Star(SpaceCh), Lit(<<":">>)>>),
       Cat(<<Lit(<<"C", "h", "a", "p", "t", "e", "r">>), Plus(SpaceCh), Plus(DigitCh)>>),
       Cat(<<Lit(<<"S", "e", "c", "t", "i", "o", "n">>), Plus(SpaceCh), Plus(DigitCh)>>) >>

\* has_heading_characteristics(span) of main.py; the size threshold of the
\* Latin and the Thai script is 12 pt
size_threshold == 1200

has_heading_characteristics(span) ==
    LET script == detect_language_script(span.text)
        patterns == IF script \in {"latin", "cyrillic", "greek"}
                    THEN latin_heading_patterns ELSE <<>>
        is_bold == HasFlag(span.flags, 16)
        is_italic == HasFlag(span.flags, 2)
    IN \/ \E i \in 1..Len(patterns) : Match(patterns[i], span.text)
       \/ IsUpper(span.text) \/ IsTitle(span.text)
       \/ is_bold
       \/ span.size > size_threshold
       \/ is_italic /\ span.size > size_threshold - 200

\* round(size, 1) of a size in hundredths: to the nearest tenth, a tie to the
\* even tenth
Round1(size) ==
    LET down == (size \div 10) * 10
        rest == size % 10
    IN IF rest < 5 THEN down
       ELSE IF rest > 5 THEN down + 10
       ELSE IF (down \div 10) % 2 = 0 THEN down ELSE down + 10

FontKey(heading) ==
    <<Round1(heading.size), Lower(heading.font),
      HasFlag(heading.flags, 16), HasFlag(heading.flags, 2)>>

\* group_by_font_properties: the groups in the order in which their keys
\* first appear, each with its headings in the order of the spans
group_by_font_properties(headings) ==
    LET first == SelectSeq([i \in 1..Len(headings) |-> i],
                     LAMBDA i : \A j \in 1..(i - 1) :
                                   FontKey(headings[j]) # FontKey(headings[i]))
    IN [g \in 1..Len(first) |->
           [key |-> FontKey(headings[first[g]]),
            members |-> SelectSeq(headings,
                LAMBDA h : FontKey(h) = FontKey(headings[first[g]]))]]

\* sorted(..., key=(size, bold), reverse=True): the greater key first, groups
\* of equal keys in their order
GroupBefore(a, b) ==
    \/ a.key[1] > b.key[1]
    \/ a.key[1] = b.key[1] /\ a.key[3] /\ ~b.key[3]

\* A level map that gives the first group the deepest level: under it the
\* larger size gets the deeper level.
LevelOfRankReversed(rank) == IF rank <= 3 THEN Hn(4 - rank) ELSE H3

\* A level map that starts at H2: the first group gets no H1.
LevelOfRankFromTwo(rank) == IF rank <= 2 THEN Hn(rank + 1) ELSE H3

\* level_map.get(group_idx, 'H3') of the group at the 1-based rank
LevelOfRank(rank) == IF rank <= 3 THEN Hn(rank) ELSE H3

SortByPage(headings) == SortedBy(headings, LAMBDA a, b : a.page < b.page)

\* sorted_groups[:3]
TopGroups(font_groups) ==
    LET sorted_groups == SortedBy(font_groups, GroupBefore)
    IN SubSeq(sorted_groups, 1, Min(3, Len(sorted_groups)))

\* the loop of assign_heading_levels over the groups: every heading of a
\* group with the level of the rank of the group
LevelledHeadings(groups) ==
    Flatten([g \in 1..Len(groups) |->
        [i \in 1..Len(groups[g].members) |->
            [level |-> LevelOfRank(g), heading |-> groups[g].members[i]]]])

\* Outline entries that carry the page before the page of their heading.
OutlineOfPageBefore(levelled) ==
    SortByPage([i \in 1..Len(levelled) |->
                   [level |-> levelled[i].level,
                    text |-> levelled[i].heading.text,
                    page |-> levelled[i].heading.page - 1]])

\* the outline entries of the levelled headings, sorted by page
OutlineOf(levelled) ==
    SortByPage([i \in 1..Len(levelled) |->
                   [level |-> levelled[i].level,
                    text |-> levelled[i].heading.text,
                    page |-> levelled[i].heading.page]])

assign_heading_levels(font_groups) ==
    OutlineOf(LevelledHeadings(TopGroups(font_groups)))

PotentialHeadings(spans) ==
    SelectSeq(spans, LAMBDA span :
        /\ Len(Strip(span.text)) >= 3
        /\ Len(Strip(span.text)) <= 200
        /\ ~is_page_number(span.text)
        /\ ~is_footer_header(span.text)
        /\ has_heading_characteristics(span))

classify_headings_multilingual(spans) ==
    assign_heading_levels(group_by_font_properties(PotentialHeadings(spans)))

\* extract_formatted_spans: the spans of non-blank text, preprocessed
extract_formatted_spans(raw) ==
    LET kept == SelectSeq(raw, LAMBDA s : Strip(s.text) # <<>>)
    IN [i \in 1..Len(kept) |->
           [text |-> preprocess_multilingual_text(kept[i].text),
            size |-> kept[i].size,
            font |-> kept[i].font,
            flags |-> kept[i].flags,
            page |-> kept[i].page + 1]]

\* A title taken from the headings alone, whatever the metadata title is.
TitleFromHeadings(metadata_title, headings) ==
    LET h1 == SelectSeq(headings, LAMBDA h : h.level = H1) IN
    IF h1 # <<>> THEN h1[1].text
    ELSE IF headings # <<>> THEN headings[1].text
    ELSE <<"D", "o", "c", "u", "m", "e", "n", "t">>

m1_extract_title(metadata_title, headings) ==
    LET h1 == SelectSeq(headings, LAMBDA h : h.level = H1) IN
    IF metadata_title # None /\ Strip(metadata_title) # <<>>
    THEN Strip(metadata_title)
    ELSE IF h1 # <<>> THEN h1[1].text
    ELSE IF headings # <<>> THEN headings[1].text
    ELSE <<"D", "o", "c", "u", "m", "e", "n", "t">>

extract_outline(metadata_title, raw) ==
    LET document(headings) ==
            Returned(m1_extract_title(metadata_title, headings), headings)
    IN document(classify_headings_multilingual(extract_formatted_spans(raw)))

\* ------------------------------------------------------------------ main4.py
\* detect_language_script of main4.py counts the Latin, CJK, Arabic and
\* Cyrillic characters only
m4_detect_language_script(text) ==
    FirstOfGreatestCount({"latin", "cjk", "arabic", "cyrillic"}, text)

form_patterns ==
    << Cat(<<Plus(DigitCh), Lit(<<".">>), Star(SpaceCh), AtEnd>>),
       Cat(<<Rep(AZ, 2, 4), AtEnd>>),
       Cat(<<Lit(<<"R", "s", ".">>), AtEnd>>),
       Cat(<<Lit(<<"S", ".", "N", "o">>), AtEnd>>),
       Cat(<<Lit(<<"D", "a", "t", "e">>), AtEnd>>),
       Cat(<<Lit(<<"N", "a", "m", "e">>), AtEnd>>),
       Cat(<<Lit(<<"A", "g", "e">>), AtEnd>>),
       Cat(<<Lit(<<"R", "e", "l", "a", "t", "i", "o", "n", "s", "h", "i", "p">>), AtEnd>>),
       Cat(<<Lit(<<"D", "e", "s", "i", "g", "n", "a", "t", "i", "o", "n">>), AtEnd>>),
       Cat(<<Lit(<<"S", "e", "r", "v", "i", "c", "e">>), AtEnd>>),
       Cat(<<Lit(<<"S", "i", "n", "g", "l", "e">>), AtEnd>>) >>

\* A filter that takes no text for a form field.
NeverFormField(text) == FALSE

m4_is_form_field(text) ==
    /\ Strip(text) # <<>>
    /\ MatchesAny(form_patterns, Strip(text))

\* [a-zA-ZÀ-ſ...]: the letters of the alphabet that the class holds
AlphaChars == AsciiUpper \cup AsciiLower \cup {"A_circ", "a_circ"}

is_meaningful_heading(text) ==
    LET t == Strip(text)
        alpha_chars == Cardinality({i \in 1..Len(t) : t[i] \in AlphaChars})
    IN /\ t # <<>>
       /\ Len(t) >= 3 /\ Len(t) <= 200
       /\ alpha_chars > 0
       /\ ~(10 * alpha_chars < 3 * Len(t))
       /\ ~Match(Cat(<<Plus(Cls({"-", "=", "_"})), AtEnd>>), t)
       /\ ~Match(Cat(<<Plus(DigitCh), Star(SpaceCh), Lit(<<"-">>), Star(SpaceCh),
                       Plus(DigitCh), AtEnd>>), t)

\* Statistics without a default: of no size at all.
StatsWithoutDefault(spans) ==
    [size_sum |-> 0, size_count |-> 0, most_common_font_size |-> 0]

\* calculate_document_stats: avg_font_size is size_sum / size_count
m4_calculate_document_stats(spans) ==
    LET font_sizes == [i \in 1..Len(spans) |-> spans[i].size] IN
    IF font_sizes = <<>>
    THEN [size_sum |-> 1200, size_count |-> 1, most_common_font_size |-> 1200]
    ELSE [size_sum |-> SumSeq(font_sizes), size_count |-> Len(font_sizes),
          most_common_font_size |-> MostCommon(font_sizes)]

\* font_size > avg_font_size + extra
AboveAverage(font_size, document_stats, extra) ==
    font_size * document_stats.size_count
        > document_stats.size_sum + extra * document_stats.size_count

m4_latin_heading_patterns ==
    << Cat(<<Plus(DigitCh), Lit(<<".">>), Plus(SpaceCh), Plus(WordCh)>>),
       Cat(<<Lit(<<"C", "h", "a", "p", "t", "e", "r">>), Plus(SpaceCh), Plus(DigitCh)>>),
       Cat(<<Lit(<<"S", "e", "c", "t", "i", "o", "n">>), Plus(SpaceCh), Plus(DigitCh)>>),
       Cat(<<Plus(WordCh), Star(SpaceCh), Opt(Lit(<<":">>)), Star(SpaceCh), AtEnd>>) >>

m4_heading_score(span, document_stats) ==
    LET text == span.text
        latin == m4_detect_language_script(text) \in {"latin", "cyrillic", "greek"}
        patterns == IF latin THEN m4_latin_heading_patterns ELSE <<>>
    IN (IF AboveAverage(span.size, document_stats, 200) THEN 2
        ELSE IF AboveAverage(span.size, document_stats, 0) THEN 1 ELSE 0)
       + (IF HasFlag(span.flags, 16) THEN 2 ELSE 0)
       + (IF HasFlag(span.flags, 2) /\ AboveAverage(span.size, document_stats, 0)
          THEN 1 ELSE 0)
       + (IF latin /\ WordCount(text) > 1 /\ (IsTitle(text) \/ IsUpper(text))
          THEN 1 ELSE 0)
       + (IF \E i \in 1..Len(patterns) : Match(patterns[i], text) THEN 2 ELSE 0)

m4_has_heading_characteristics(span, document_stats) ==
    /\ is_meaningful_heading(span.text)
    /\ ~m4_is_form_field(span.text)
    /\ m4_heading_score(span, document_stats) >= 2

\* Groups taken whole, without the limit of ten headings.
UnlimitedGroups(groups) == groups

\* group_headings[:10] of assign_heading_levels of main4.py
LimitedGroups(groups) ==
    [g \in 1..Len(groups) |->
        [key |-> groups[g].key,
         members |-> SubSeq(groups[g].members, 1, Min(10, Len(groups[g].members)))]]

m4_assign_heading_levels(font_groups) ==
    OutlineOf(LevelledHeadings(LimitedGroups(TopGroups(font_groups))))

m4_PotentialHeadings(spans) ==
    LET document_stats == m4_calculate_document_stats(spans) IN
    SelectSeq(spans, LAMBDA span :
        /\ ~is_page_number(span.text)
        /\ ~is_footer_header(span.text)
        /\ ~m4_is_form_field(span.text)
        /\ is_meaningful_heading(span.text)
        /\ m4_has_heading_characteristics(span, document_stats))

\* more than 20 potential headings: the bold, the large and the numbered
\* ones remain, and of them the first 15
StricterFilter(potential_headings, document_stats) ==
    LET filtered_headings == SelectSeq(potential_headings, LAMBDA heading :
            \/ HasFlag(heading.flags, 16)
            \/ AboveAverage(heading.size, document_stats, 100)
            \/ Match(Cat(<<Plus(DigitCh), Lit(<<".">>)>>), heading.text))
    IN SubSeq(filtered_headings, 1, Min(15, Len(filtered_headings)))

\* "If too many potential headings, apply stricter filtering"
FilteredIfMany(potential_headings, document_stats) ==
    IF Len(potential_headings) > 20
    THEN StricterFilter(potential_headings, document_stats)
    ELSE potential_headings

m4_classify_headings_multilingual(spans) ==
    m4_assign_heading_levels(group_by_font_properties(
        FilteredIfMany(m4_PotentialHeadings(spans),
                       m4_calculate_document_stats(spans))))

m4_extract_title(metadata_title, headings) ==
    LET title == IF metadata_title = None THEN <<>> ELSE Strip(metadata_title)
        h1 == SelectSeq(headings, LAMBDA h : h.level = H1 /\ Len(h.text) > 10)
    IN IF /\ title # <<>>
          /\ ~EndsWith(title, <<".", "d", "o", "c">>)
          /\ ~EndsWith(title, <<".", "p", "d", "f">>)
          /\ ~EndsWith(title, <<".", "d", "o", "c", "x">>)
       THEN title
       ELSE IF h1 # <<>> THEN h1[1].text
       ELSE IF headings # <<>> /\ Len(headings[1].text) > 5 THEN headings[1].text
       ELSE <<"D", "o", "c", "u", "m", "e", "n", "t">>

m4_extract_outline(metadata_title, raw) ==
    LET document(headings) ==
            Returned(m4_extract_title(metadata_title, headings), headings)
    IN document(m4_classify_headings_multilingual(extract_formatted_spans(raw)))

\* ------------------------------------------------------------- main2.py
\* The height of a page in points, the same for every page of a document.
PageHeight == 792

\* The bottom of the box of a span: the box is as tall as the font size, in
\* whole points.
BoxBottom(span) == span.y + span.size \div 100

\* bbox[1] < page_height * 0.1 or bbox[3] > page_height * 0.9
InPageMargin(top, bottom, page_height) ==
    10 * top < page_height \/ 10 * bottom > 9 * page_height

\* round(size): to the nearest whole point, a half to the even one
Round0(size) ==
    LET down == (size \div 100) * 100
        rest == size % 100
    IN IF rest < 50 THEN down
       ELSE IF rest > 50 THEN down + 100
       ELSE IF (down \div 100) % 2 = 0 THEN down ELSE down + 100

\* The runs of whitespace made one space, and nothing stripped.
CollapseOnly(text) == CollapseWhitespace(text)

preprocess_text(text) == Strip(CollapseWhitespace(text))

\* ^\s*([bullets]|\*|-|\d+\.|\w\))\s+ over the characters of the Alphabet,
\* which has no bullet and no closing parenthesis
list_item_pattern ==
    Cat(<<Star(Cls(Whitespace)),
          Alt(<<Cls({"*"}), Cls({"-"}), Cat(<<Plus(Cls(Digits)), Cls({"."})>>)>>),
          Plus(Cls(Whitespace))>>)

\* "bold" in span["font"].lower() or (span["flags"] & 2**4): True (1) for a
\* bold font name, else the bit of the flags, 16 or 0
BoldOrFlag(span) ==
    IF Contains(Lower(span.font), <<"b", "o", "l", "d">>) THEN 1
    ELSE IF HasFlag(span.flags, 16) THEN 16 ELSE 0

is_potential_heading(span, page_height) ==
    /\ ~Match(list_item_pattern, span.text)
    /\ WordCount(span.text) <= 15
    /\ ~InPageMargin(span.top, span.bottom, page_height)
    /\ span.size > 1350 \/ BoldOrFlag(span) # 0

\* the spans of the document that have ink, page by page
m2_all_spans(raw) ==
    LET kept == SelectSeq(raw, LAMBDA s : Strip(s.text) # <<>>)
    IN [i \in 1..Len(kept) |->
           [text |-> preprocess_text(kept[i].text),
            size |-> kept[i].size,
            font |-> kept[i].font,
            flags |-> kept[i].flags,
            page |-> kept[i].page + 1,
            top |-> kept[i].y,
            bottom |-> BoxBottom(kept[i])]]

\* os.path.splitext(os.path.basename(path))[0]
Stem(name) ==
    CASE name = "file01.pdf" -> <<"f", "i", "l", "e", "0", "1">>
      [] name = "file05.pdf" -> <<"f", "i", "l", "e", "0", "5">>
      [] OTHER -> <<"d", "o", "c">>

\* str.title(): a cased character is upper case after an uncased one and
\* lower case after a cased one
Title(s) ==
    [i \in 1..Len(s) |->
        IF i > 1 /\ IsCased(s[i - 1]) THEN LowerChar(s[i]) ELSE UpperChar(s[i])]

\* extract_title of main2.py; None when the most prominent span of the first
\* page has 15 words or more
m2_extract_title(name, metadata_title, spans) ==
    LET first_page_spans ==
            SortedBy(SelectSeq(spans, LAMBDA s : s.page = 1),
                     LAMBDA a, b : \/ a.size > b.size
                                   \/ a.size = b.size /\ a.top < b.top)
    IN IF /\ metadata_title # None /\ metadata_title # <<>>
          /\ Len(Strip(metadata_title)) > 5
       THEN Strip(metadata_title)
       ELSE IF first_page_spans = <<>>
       THEN Title([i \in 1..Len(Stem(name)) |->
                      IF Stem(name)[i] = "_" THEN " " ELSE Stem(name)[i]])
       ELSE IF WordCount(first_page_spans[1].text) < 15
       THEN first_page_spans[1].text
       ELSE None

\* style_key: (round(h['size']), bold)
StyleKey(h) == <<Round0(h.size), BoldOrFlag(h)>>

\* sorted(font_styles.keys(), key=lambda k: (-k[0], -k[1])): the place of a
\* style among the styles of the potential headings, from 1
StyleRank(style, potential_headings) ==
    1 + Cardinality({StyleKey(potential_headings[i]) : i \in
          {k \in 1..Len(potential_headings) :
              LET other == StyleKey(potential_headings[k])
              IN \/ other[1] > style[1]
                 \/ other[1] = style[1] /\ other[2] > style[2]}})

\* level_map: H1 for the first style, H2 for the second, H3 for all others
level_map(rank) == IF rank = 1 THEN H1 ELSE IF rank = 2 THEN H2 ELSE H3

\* for style, headings in font_styles.items(): the potential headings style
\* by style, the styles in the order of their first heading
ByStyle(potential_headings) ==
    LET first == SelectSeq([i \in 1..Len(potential_headings) |-> i], LAMBDA i :
                     \A j \in 1..(i - 1) :
                         StyleKey(potential_headings[j]) # StyleKey(potential_headings[i]))
    IN Flatten([g \in 1..Len(first) |->
           SelectSeq(potential_headings, LAMBDA h :
               StyleKey(h) = StyleKey(potential_headings[first[g]]))])

\* the key of the final sort next to the page: the top of the first span of
\* the document with the text and the page of the entry
SortPosition(x, all_spans) ==
    all_spans[MinOf({k \in 1..Len(all_spans) :
        all_spans[k].text = x.text /\ all_spans[k].page = x.page})].top

\* the entries of the outline before the final sort, each with the top of
\* the span it was made from and with its sort position
LevelledByStyle(grouped, potential_headings, all_spans) ==
    [i \in 1..Len(grouped) |->
        [level |-> level_map(StyleRank(StyleKey(grouped[i]), potential_headings)),
         text |-> grouped[i].text,
         page |-> grouped[i].page,
         top |-> grouped[i].top,
         position |-> SortPosition(grouped[i], all_spans)]]

\* The outline of main2.py after its final sort, each entry with the top of
\* the span it was made from.
PositionedOutline(potential_headings, all_spans) ==
    SortedBy(LevelledByStyle(ByStyle(potential_headings), potential_headings, all_spans),
             LAMBDA a, b : \/ a.page < b.page
                           \/ a.page = b.page /\ a.position < b.position)

m2_potential_headings(all_spans) ==
    SelectSeq(all_spans, LAMBDA s : is_potential_heading(s, PageHeight))

WithoutTop(positioned) ==
    [i \in 1..Len(positioned) |->
        [level |-> positioned[i].level, text |-> positioned[i].text,
         page |-> positioned[i].page]]

\* the final title determination of PDFOutlineExtractor.extract
m2_final_title(name, title, outline) ==
    LET h1_headings == SelectSeq(outline, LAMBDA h : h.level = H1) IN
    IF title # None /\ title # <<>> THEN title
    ELSE IF h1_headings # <<>> THEN h1_headings[1].text
    ELSE IF outline # <<>> THEN outline[1].text
    ELSE Stem(name)

\* PDFOutlineExtractor.extract on a document that opens and has a page
m2_extract(name, metadata_title, raw) ==
    LET document(all_spans, outline) ==
            IF m2_potential_headings(all_spans) = <<>>
            THEN Returned(m2_extract_title(name, metadata_title, all_spans), <<>>)
            ELSE Returned(m2_final_title(name,
                              m2_extract_title(name, metadata_title, all_spans),
                              outline),
                          outline)
        outlined(all_spans) ==
            document(all_spans,
                     WithoutTop(PositionedOutline(m2_potential_headings(all_spans),
                                                  all_spans)))
    IN outlined(m2_all_spans(raw))

\* ------------------------------------------------------------- main6.py
\* ^\s*(\d+(\.\d+)*)\s+([A-Z].*)$ on the text of a block of one line: the
\* line break that ends the block is left to $ and "." does not cross it
numbered_heading_pattern ==
    Cat(<<Star(SpaceCh),
          Plus(DigitCh), Star(Cat(<<Cls({"."}), Plus(DigitCh)>>)),
          Plus(SpaceCh), AZ, Star(AnyChar), AtEnd>>)

\* match.group(1).count('.') + 1: the group is the first word of the text
level_depth(text) ==
    Cardinality({i \in 1..Len(Split(text)[1]) : Split(text)[1][i] = "."}) + 1

\* Pass 1: the numbered headings of the blocks, each block one raw span
NumberedHeadings(raw) ==
    LET matched == SelectSeq(raw, LAMBDA b : Match(numbered_heading_pattern, b.text))
    IN [i \in 1..Len(matched) |->
           [level |-> Hn(Min(level_depth(matched[i].text), 6)),
            text |-> Strip(matched[i].text),
            page |-> matched[i].page,
            style |-> "numbered",
            top |-> matched[i].y]]

\* re.search(r'\s*\.{5,}\s*\d+$', line_text)
toc_line_pattern ==
    Cat(<<Rep(Cls({"."}), 5, 5), Star(Cls({"."})), Star(SpaceCh), Plus(DigitCh), AtEnd>>)

\* Pass 2, the spans: outside the top and the bottom tenth of the page, not
\* a line of a table of contents, with ink
m6_spans(raw) ==
    LET kept == SelectSeq(raw, LAMBDA s :
                    /\ 10 * s.y > PageHeight
                    /\ 10 * BoxBottom(s) < 9 * PageHeight
                    /\ ~Search(toc_line_pattern, s.text)
                    /\ Strip(s.text) # <<>>)
    IN [i \in 1..Len(kept) |->
           [text |-> Strip(kept[i].text),
            size |-> kept[i].size,
            bold |-> Contains(Lower(kept[i].font), <<"b", "o", "l", "d">>),
            page |-> kept[i].page,
            top |-> kept[i].y]]

\* font_styles[(size, bold)]: the characters of the spans of the style
StyleWeight(spans, size, bold) ==
    SumSeq([i \in 1..Len(spans) |->
               IF spans[i].size = size /\ spans[i].bold = bold
               THEN Len(spans[i].text) ELSE 0])

\* sorted(font_styles.items(), key=lambda item: item[1], reverse=True): the
\* spans that open a style, the heaviest style first
sorted_styles(spans) ==
    LET first == SelectSeq([i \in 1..Len(spans) |-> i], LAMBDA i :
                     \A j \in 1..(i - 1) :
                         spans[j].size # spans[i].size \/ spans[j].bold # spans[i].bold)
    IN SortedBy([k \in 1..Len(first) |-> spans[first[k]]],
                LAMBDA a, b : StyleWeight(spans, a.size, a.bold)
                                  > StyleWeight(spans, b.size, b.bold))

\* the size of the heaviest style that is not bold, else of the heaviest
body_size(styles) ==
    LET plain == SelectSeq(styles, LAMBDA s : ~s.bold)
    IN IF plain # <<>> THEN plain[1].size ELSE styles[1].size

\* the sizes of the styles larger than the body text, or as large and bold
HeadingSizes(styles, body) ==
    {styles[i].size : i \in {k \in 1..Len(styles) :
        \/ styles[k].size > body
        \/ styles[k].size = body /\ styles[k].bold}}

\* size_to_level: H1, H2, H3 for the three largest sizes; None for the others
size_to_level(size, sizes) ==
    LET larger == Cardinality({x \in sizes : x > size})
    IN IF size \in sizes /\ larger < 3 THEN Hn(larger + 1) ELSE None

\* Pass 2: the spans of a size that has a level
FontHeadings(spans, sizes) ==
    LET levelled == SelectSeq(spans, LAMBDA s : size_to_level(s.size, sizes) # None)
    IN [i \in 1..Len(levelled) |->
           [level |-> size_to_level(levelled[i].size, sizes),
            text |-> levelled[i].text,
            page |-> levelled[i].page,
            style |-> "font",
            top |-> levelled[i].top]]

\* the headings of the two passes, in the order they are appended
m6_headings(raw, spans) ==
    NumberedHeadings(raw) \o
    (IF spans = <<>> THEN <<>>
     ELSE FontHeadings(spans, HeadingSizes(sorted_styles(spans),
                                           body_size(sorted_styles(spans)))))

\* headings.sort(key=lambda x: (x['page'], x.get('bbox', [0,0])[1])): no
\* heading has a bbox, the second part of the key is 0 for all
SortByPageAndBbox(headings) == SortedBy(headings, LAMBDA a, b : a.page < b.page)

\* A test of the level and of the style alone, whatever the pages are.
SameLevelAndStyle(a, b) == a.level = b.level /\ a.style = b.style

SameRun(a, b) == a.level = b.level /\ a.page = b.page /\ a.style = b.style

\* the text of the merged heading that begins at index i
RECURSIVE MergedText(_, _)
MergedText(headings, i) ==
    headings[i].text \o
    (IF i < Len(headings) /\ SameRun(headings[i], headings[i + 1])
     THEN <<" ">> \o MergedText(headings, i + 1) ELSE <<>>)

\* temp_headings: one heading for each run of headings of the same level,
\* page and style, the texts joined by a space
temp_headings(headings) ==
    LET starts == SelectSeq([i \in 1..Len(headings) |-> i],
                      LAMBDA i : i = 1 \/ ~SameRun(headings[i - 1], headings[i]))
    IN [k \in 1..Len(starts) |->
           [headings[starts[k]] EXCEPT !.text = MergedText(headings, starts[k])]]

\* str.isnumeric() over the Alphabet
IsNumeric(text) == text # <<>> /\ \A i \in 1..Len(text) : text[i] \in Digits

\* len(text) > 2 and not text.isnumeric() and not text.endswith(':')
IsCleanText(text) == Len(text) > 2 /\ ~IsNumeric(text) /\ ~EndsWith(text, <<":">>)

\* final_headings, each with the top of the first span it was made from
final_headings(temp) ==
    LET kept == SelectSeq([i \in 1..Len(temp) |-> i], LAMBDA i :
                    /\ IsCleanText(Strip(temp[i].text))
                    /\ \A j \in 1..(i - 1) :
                          IsCleanText(Strip(temp[j].text))
                          => Lower(Strip(temp[j].text)) # Lower(Strip(temp[i].text)))
    IN [k \in 1..Len(kept) |->
           [level |-> temp[kept[k]].level,
            text |-> Strip(temp[kept[k]].text),
            page |-> temp[kept[k]].page,
            top |-> temp[kept[k]].top]]

\* the title: the shortest H1, else the largest span of the first page, else
\* the name of the file without ".pdf"
m6_title(name, outline, spans) ==
    LET h1_headings == SelectSeq(outline, LAMBDA h : h.level = H1)
        shortest == MinOf({i \in 1..Len(h1_headings) :
                       \A j \in 1..Len(h1_headings) :
                           Len(h1_headings[i].text) <= Len(h1_headings[j].text)})
        first_page_spans == SortedBy(SelectSeq(spans, LAMBDA s : s.page = 0),
                                     LAMBDA a, b : a.size > b.size)
    IN IF h1_headings # <<>> THEN h1_headings[shortest].text
       ELSE IF first_page_spans # <<>> THEN first_page_spans[1].text
       ELSE Stem(name)

\* the final headings of a document, with their tops
m6_final_headings(raw) ==
    final_headings(temp_headings(SortByPageAndBbox(m6_headings(raw, m6_spans(raw)))))

extract_headings_from_pdf(name, raw) ==
    LET document(outline) == Returned(m6_title(name, outline, m6_spans(raw)), outline)
    IN document(WithoutTop(m6_final_headings(raw)))

\* ------------------------------------------------- documents (the inputs)
\* One PDF line of one span.
PdfLine(text, size, flags, pos) ==
    [spans |-> << [text |-> text, size |-> size, flags |-> flags] >>, pos |-> pos]

\* Entries of an embedded table of contents: <<level, title, page>>.
TocPool ==
    { <<1, <<"I", "n", "t", "r", "o">>, 1>>,
      <<2, <<"1", ".", "2", " ", "S", "c", "o", "p", "e">>, 3>>,
      <<1, <<"2", ".", "1">>, 2>>,
      <<7, <<"D", "e", "e", "p">>, 2>> }

\* Pages: the markdown the converter gives for the page, and its PDF lines.
PagePool ==
    { [md |-> <<>>, lines |-> <<>>],
      [md |-> << <<"#", " ", "S", "u", "m", "m", "a", "r", "y">>, <<"P", "l", "a", "i", "n", " ", "b", "o", "d", "y", " ", "t", "e", "x", "t">> >>,
       lines |-> << PdfLine(<<"S", "u", "m", "m", "a", "r", "y">>, 1600, 16, 100),
                    PdfLine(<<"P", "l", "a", "i", "n", " ", "b", "o", "d", "y", " ", "t", "e", "x", "t">>, 1100, 0, 130) >>],
      [md |-> << <<"#", "#", "#", "#", "#", "#", "#", " ", "D", "e", "e", "p", " ", "h", "e", "a", "d", "i", "n", "g">> >>,
       lines |-> << PdfLine(<<"D", "e", "e", "p", " ", "h", "e", "a", "d", "i", "n", "g">>, 1200, 0, 100) >>],
      [md |-> << <<"*", "*", "O", "v", "e", "r", "v", "i", "e", "w", "*", "*">>, <<"s", "e", "e", " ", "*", "*", "o", "v", "e", "r", "v", "i", "e", "w", "*", "*", " ", "n", "o", "w">> >>,
       lines |-> << PdfLine(<<"O", "v", "e", "r", "v", "i", "e", "w">>, 1200, 16, 100),
                    PdfLine(<<"s", "e", "e", " ", "o", "v", "e", "r", "v", "i", "e", "w", " ", "n", "o", "w">>, 1100, 0, 130) >>],
      [md |-> << <<"P", "l", "a", "i", "n", " ", "b", "o", "d", "y", " ", "t", "e", "x", "t">> >>,
       lines |-> << PdfLine(<<"P", "l", "a", "i", "n", " ", "b", "o", "d", "y", " ", "t", "e", "x", "t">>, 1100, 0, 100) >>],
      [md |-> << <<"*", "*", "T", "o", "t", "a", "l", "*", "*">> >>,
       lines |-> << PdfLine(<<"T", "o", "t", "a", "l">>, 0, 16, 100) >>] }

\* Spans of main.py, main4.py and main7.py: the text, the size, the font
\* name, the flags (16 bold, 2 italic), the page index and the vertical
\* position, as the layout analysis gives them.
RawSpan(text, size, font, flags, page, y) ==
    [text |-> text, size |-> size, font |-> font, flags |-> flags,
     page |-> page, y |-> y]

SpanPool ==
    { RawSpan(<<"C", "h", "a", "p", "t", "e", "r", " ", "1">>, 2000, <<"A", "r", "i", "a", "l", "-", "B", "o", "l", "d">>, 16, 0, 720),
      RawSpan(<<"1", ".", "1", " ", "B", "a", "c", "k", "g", "r", "o", "u", "n", "d">>, 1596, <<"A", "r", "i", "a", "l", "-", "B", "o", "l", "d">>, 16, 0, 600),
      RawSpan(<<"1", ".", "1", ".", "1", " ", "D", "e", "t", "a", "i", "l", "e", "d", " ", "N", "o", "t", "e", "s">>, 2400, <<"A", "r", "i", "a", "l", "-", "B", "o", "l", "d">>, 16, 0, 500),
      RawSpan(<<"1", ".", "2", ".", "3", ".", "4", " ", "D", "e", "e", "p", " ", "N", "o", "t", "e", "s">>, 1400, <<"A", "r", "i", "a", "l", "-", "B", "o", "l", "d">>, 16, 0, 40),
      RawSpan(<<" ", "nbsp">>, 1200, <<"T", "i", "m", "e", "s">>, 0, 0, 400),
      RawSpan(<<"L", "o", "r", "e", "m", " ", "i", "p", "s", "u", "m", " ", "d", "o", "l", "o", "r", " ", "s", "i", "t", " ", "a", "m", "e", "t", ".">>, 1100, <<"T", "i", "m", "e", "s">>, 0, 0, 300),
      RawSpan(<<"S", ".", "N", "o">>, 1100, <<"T", "i", "m", "e", "s">>, 0, 0, 200),
      RawSpan(<<"N", "a", "m", "e">>, 2000, <<"A", "r", "i", "a", "l", "-", "B", "o", "l", "d">>, 16, 0, 150),
      RawSpan(<<"O", "v", "e", "r", "v", "i", "e", "w">>, 1800, <<"A", "r", "i", "a", "l">>, 0, 1, 700),
      RawSpan(<<"o", "v", "e", "r", "v", "i", "e", "w">>, 1800, <<"T", "i", "m", "e", "s", "-", "I", "t", "a", "l", "i", "c">>, 2, 1, 400),
      RawSpan(<<"S", "c", "o", "p", "e", " ", " ", "O", "f", " ", "W", "o", "r", "k">>, 1600, <<"A", "r", "i", "a", "l", "-", "B", "o", "l", "d">>, 16, 1, 300) }

\* The i-th generated heading: "Topic A", "Topic B", ... in bold 12 pt, twelve
\* to a page from page index 1 on.
BulkSpan(i) ==
    RawSpan(<<"T", "o", "p", "i", "c", " ">> \o <<Alphabet[17 + i]>>, 1200, <<"A", "r", "i", "a", "l", "-", "B", "o", "l", "d">>, 16,
            1 + (i - 1) \div 12, 700 - 10 * i)

\* The i-th generated heading of a style of its own: "Annex A", "Annex B",
\* ... in bold, each a half point smaller than the one before, down the
\* first page.
StyledSpan(i) ==
    RawSpan(<<"A", "n", "n", "e", "x", " ">> \o <<Alphabet[17 + i]>>, 1400 - 50 * i, <<"A", "r", "i", "a", "l", "-", "B", "o", "l", "d">>, 16,
            0, 100 * i)

\* the spans of the document: the drawn ones, then the generated ones
DocSpans(drawn, n) == drawn \o [i \in 1..n |-> BulkSpan(i)]

MetaPool == { None, <<" ">>, <<"D", "o", "c">>, <<"A", "n", "n", "u", "a", "l", " ", "R", "e", "p", "o", "r", "t">> }

\* ------------------------------------------------------ document handles
\* The state of the handle of fitz.open / pymupdf.open when the extraction
\* call is left.  main.py and main4.py close it as the last statement before
\* the return, so it stays open when a step before has raised.
ClosedUnlessRaised(r) == IF r.status = "raised" THEN "open" ELSE "closed"

\* process_pdf answers the two files it knows by name before it opens them
process_pdf_handle(basename, r) ==
    IF basename \in {"file01.pdf", "file05.pdf"} THEN "unopened"
    ELSE ClosedUnlessRaised(r)

\* PDFOutlineExtractor.extract closes the handle on its last return only;
\* the return of a document without potential heading comes before
m2_doc_handle(raw) ==
    IF m2_potential_headings(m2_all_spans(raw)) = <<>> THEN "open" ELSE "closed"

\* extract_headings_from_pdf opens the document and has no close
m6_doc_handle == "open"

Filenames == {"file01.pdf", "file05.pdf", "doc.pdf"}

Programs == {"process_pdfs", "main", "main2", "main4", "main6", "main7"}

NoResult == [status |-> "none"]

\* ------------------------------------------------------ the state machine
Init ==
    /\ prog \in Programs
    /\ pc = "build"
    /\ filename \in (IF prog = "process_pdfs" THEN Filenames ELSE {"doc.pdf"})
    /\ toc = <<>>
    /\ pages = <<>>
    /\ meta \in (IF prog \in {"main6", "main7"} THEN {None} ELSE MetaPool)
    /\ elements = <<>>
    /\ bulk = 0
    /\ result = NoResult
    /\ batch = <<>>
    /\ cursor = 0
    /\ written = {}
    /\ raw_text = <<>>
    /\ normalized = None
    /\ doc_handle = "unopened"

\* The document carries one more table-of-contents entry.
AddTocEntry ==
    /\ prog = "process_pdfs" /\ pc = "build" /\ filename = "doc.pdf"
    /\ pages = <<>> /\ Len(toc) < MaxToc
    /\ \E e \in TocPool : toc' = Append(toc, e)
    /\ UNCHANGED <<prog, pc, filename, pages, meta, elements, bulk, result,
                   batch, cursor, written, raw_text, normalized, doc_handle>>

\* The document has one more page.
AddPage ==
    /\ prog = "process_pdfs" /\ pc = "build" /\ filename = "doc.pdf"
    /\ Len(pages) < MaxPages
    /\ toc = <<>> \/ pages = <<>>
    /\ \E p \in PagePool : pages' = Append(pages, p)
    /\ UNCHANGED <<prog, pc, filename, toc, meta, elements, bulk, result,
                   batch, cursor, written, raw_text, normalized, doc_handle>>

RunProcessPdf ==
    /\ prog = "process_pdfs" /\ pc = "build"
    /\ result' = process_pdf(filename, toc, meta, pages)
    /\ doc_handle' = process_pdf_handle(filename, result')
    /\ pc' = "done"
    /\ UNCHANGED <<prog, filename, toc, pages, meta, elements, bulk,
                   batch, cursor, written, raw_text, normalized>>

\* The layout analysis gives one more span, on the page of the last one or
\* on a later page; a document with a metadata title has up to MaxTitled
\* spans.
AddSpan ==
    /\ prog # "process_pdfs" /\ pc = "build" /\ bulk = 0
    /\ Len(elements) < MaxSpans
    /\ meta # None => Len(elements) < MaxTitled
    /\ \E e \in SpanPool :
          /\ elements # <<>> => elements[Len(elements)].page <= e.page
          /\ elements' = Append(elements, e)
    /\ UNCHANGED <<prog, pc, filename, toc, pages, meta, bulk, result,
                   batch, cursor, written, raw_text, normalized, doc_handle>>

\* A document of generated headings of styles of their own and of no
\* metadata title has one more of them, up to MaxStyled.
AddStyledSpan ==
    /\ prog # "process_pdfs" /\ pc = "build" /\ bulk = 0
    /\ meta = None
    /\ Len(elements) < MaxStyled
    /\ elements = [i \in 1..Len(elements) |-> StyledSpan(i)]
    /\ elements' = Append(elements, StyledSpan(Len(elements) + 1))
    /\ UNCHANGED <<prog, pc, filename, toc, pages, meta, bulk, result,
                   batch, cursor, written, raw_text, normalized, doc_handle>>

\* The document goes on with one more generated heading: up to MaxBulk of
\* them in a document of no drawn span, up to MaxTail after one drawn span;
\* such a document has no metadata title.
AddBulk ==
    /\ prog # "process_pdfs" /\ pc = "build"
    /\ meta = None
    /\ \/ elements = <<>> /\ bulk < MaxBulk
       \/ Len(elements) = 1 /\ bulk < MaxTail
    /\ bulk' = bulk + 1
    /\ UNCHANGED <<prog, pc, filename, toc, pages, meta, elements, result,
                   batch, cursor, written, raw_text, normalized, doc_handle>>

RunMain7 ==
    /\ prog = "main7" /\ pc = "build"
    /\ result' = process_document(DocSpans(elements, bulk))
    /\ doc_handle' = "unopened"
    /\ pc' = "done"
    /\ UNCHANGED <<prog, filename, toc, pages, meta, elements, bulk,
                   batch, cursor, written, raw_text, normalized>>

RunMain ==
    /\ prog = "main" /\ pc = "build"
    /\ result' = extract_outline(meta, DocSpans(elements, bulk))
    /\ doc_handle' = ClosedUnlessRaised(result')
    /\ pc' = "done"
    /\ UNCHANGED <<prog, filename, toc, pages, meta, elements, bulk,
                   batch, cursor, written, raw_text, normalized>>

RunMain4 ==
    /\ prog = "main4" /\ pc = "build"
    /\ result' = m4_extract_outline(meta, DocSpans(elements, bulk))
    /\ doc_handle' = ClosedUnlessRaised(result')
    /\ pc' = "done"
    /\ UNCHANGED <<prog, filename, toc, pages, meta, elements, bulk,
                   batch, cursor, written, raw_text, normalized>>

RunMain2 ==
    /\ prog = "main2" /\ pc = "build"
    /\ result' = m2_extract(filename, meta, DocSpans(elements, bulk))
    /\ doc_handle' = m2_doc_handle(DocSpans(elements, bulk))
    /\ pc' = "done"
    /\ UNCHANGED <<prog, filename, toc, pages, meta, elements, bulk,
                   batch, cursor, written, raw_text, normalized>>

RunMain6 ==
    /\ prog = "main6" /\ pc = "build"
    /\ result' = extract_headings_from_pdf(filename, DocSpans(elements, bulk))
    /\ doc_handle' = m6_doc_handle
    /\ pc' = "done"
    /\ UNCHANGED <<prog, filename, toc, pages, meta, elements, bulk,
                   batch, cursor, written, raw_text, normalized>>

Next ==
    \/ AddTocEntry \/ AddPage \/ RunProcessPdf
    \/ AddSpan \/ AddStyledSpan \/ AddBulk \/ RunMain \/ RunMain2 \/ RunMain4 \/ RunMain6
    \/ RunMain7

Spec == Init /\ [][Next]_vars

\* ------------------------------------------------- the batch loop of main()
\* The most files a batch has.
MaxFiles == 3

\* the programs whose main() has the loop of the batch that is modelled
BatchPrograms == {"process_pdfs", "main", "main7"}

\* result = process_pdf(pdf_path), parser.extract_outline(pdf_path),
\* extractor.process_document(pdf_path)
ProcessOne(program, doc) ==
    IF program = "process_pdfs" THEN process_pdf("doc.pdf", <<>>, None, doc)
    ELSE IF program = "main" THEN extract_outline(None, doc)
    ELSE process_document(doc)

\* The files of a batch: what the PDF holds (for process_pdfs.py a page,
\* for main.py and main7.py the spans), what processing it gives, and
\* whether its JSON output can be opened and written.
BatchFiles(program) ==
    LET docs == IF program = "process_pdfs"
                THEN {<<p>> : p \in {q \in PagePool : Len(q.lines) = 1}}
                ELSE {<<>>} \cup {<<e>> : e \in {x \in SpanPool : x.size > 2000}}
    IN {[doc |-> d, outcome |-> ProcessOne(program, d), writable |-> w] :
            d \in docs, w \in BOOLEAN}

\* the body of the loop is inside try ... except Exception: in
\* process_pdfs.py and in main.py, not in main7.py
LoopCatches(program) == program \in {"process_pdfs", "main"}

BatchInit ==
    /\ prog \in BatchPrograms
    /\ batch \in UNION {[1..n -> BatchFiles(prog)] : n \in 0..MaxFiles}
    /\ pc = (IF batch = <<>> THEN "exit" ELSE "loop")
    /\ cursor = 1
    /\ written = {}
    /\ raw_text = <<>>
    /\ normalized = None
    /\ doc_handle = "unopened"
    /\ filename = "doc.pdf"
    /\ toc = <<>>
    /\ pages = <<>>
    /\ meta = None
    /\ elements = <<>>
    /\ bulk = 0
    /\ result = NoResult

\* One turn of "for pdf_file in pdf_files": the file is processed and its
\* result is written; an exception of either step is caught where the loop
\* has a try, and ends main() where it has none.
ProcessFile ==
    /\ pc = "loop" /\ cursor <= Len(batch)
    /\ result' = batch[cursor].outcome
    /\ IF batch[cursor].outcome.status = "ok" /\ batch[cursor].writable
       THEN /\ written' = written \cup {cursor}
            /\ cursor' = cursor + 1
            /\ pc' = (IF cursor = Len(batch) THEN "exit" ELSE "loop")
       ELSE IF LoopCatches(prog)
       THEN /\ written' = written
            /\ cursor' = cursor + 1
            /\ pc' = (IF cursor = Len(batch) THEN "exit" ELSE "loop")
       ELSE /\ written' = written
            /\ cursor' = cursor
            /\ pc' = "raised"
    /\ UNCHANGED <<prog, filename, toc, pages, meta, elements, bulk, batch,
                   raw_text, normalized, doc_handle>>

BatchNext == ProcessFile

\* The loop is sequential code: while a turn is left, it is taken.
BatchSpec == BatchInit /\ [][BatchNext]_vars /\ WF_vars(ProcessFile)

\* ------------------------------------------------- the text normalization
\* The normalization of a text alone: a text of up to MaxText characters is
\* handed to the normalization of one of the programs.
MaxText == 5

\* The characters of the texts of a program: those its normalization treats
\* in a way of their own, and a letter.
TextChars(program) ==
    CASE program = "process_pdfs" -> {" ", "*", "a_circ", "euro", "ldquo"}
      [] program = "main7" -> {" ", "nbsp", ".", "ellipsis", "thai_ko"}
      [] OTHER -> {" ", "nbsp", "thai_ko", ".", "*"}

TextPrograms == {"main", "main4", "main2", "process_pdfs", "main7"}

\* preprocess_multilingual_text (main.py, main4.py), preprocess_text
\* (main2.py), clean_text (process_pdfs.py, main7.py)
Normalization(program, text) ==
    CASE program \in {"main", "main4"} -> preprocess_multilingual_text(text)
      [] program = "main2" -> preprocess_text(text)
      [] program = "process_pdfs" -> clean_text(text)
      [] program = "main7" -> m7_clean_text(text)

TextInit ==
    /\ prog \in TextPrograms
    /\ pc = "text"
    /\ raw_text = <<>>
    /\ normalized = None
    /\ doc_handle = "unopened"
    /\ filename = "doc.pdf"
    /\ toc = <<>>
    /\ pages = <<>>
    /\ meta = None
    /\ elements = <<>>
    /\ bulk = 0
    /\ result = NoResult
    /\ batch = <<>>
    /\ cursor = 0
    /\ written = {}

\* The text has one more character.
AddChar ==
    /\ pc = "text" /\ Len(raw_text) < MaxText
    /\ \E c \in TextChars(prog) : raw_text' = Append(raw_text, c)
    /\ UNCHANGED <<prog, pc, filename, toc, pages, meta, elements, bulk, result,
                   batch, cursor, written, normalized, doc_handle>>

\* The normalization of the program is applied to the text.
Normalize ==
    /\ pc = "text"
    /\ normalized' = Normalization(prog, raw_text)
    /\ pc' = "normalized"
    /\ UNCHANGED <<prog, filename, toc, pages, meta, elements, bulk, result,
                   batch, cursor, written, raw_text, doc_handle>>

TextNext == AddChar \/ Normalize

TextSpec == TextInit /\ [][TextNext]_vars

\* ------------------------------------------------------------- properties
\* The program has returned an OutlineDocument.
HasReturned == pc = "done" /\ result.status = "ok"

\* the spans of the document in the state
Spans == DocSpans(elements, bulk)

LevelNumber(level) == level[2]

CountAtLevel(outline, level) ==
    Cardinality({i \in 1..Len(outline) : outline[i].level = level})

\* The spans that survive the extraction of the program: what main7.py keeps
\* as elements, what main.py and main4.py keep as formatted spans.
UsableSpans ==
    IF prog = "main7" THEN extract_text_elements(Spans)
    ELSE extract_formatted_spans(Spans)

\* The outline entries of main.py and of main7.py with the style they come
\* from: the level, the font size, the bold flag, and whether the level is
\* derived from the size (in main7.py: the text has no numbering or keyword).
StyledEntries ==
    IF prog = "main7"
    THEN LET elems == extract_text_elements(Spans)
             doc_stats == m7_calculate_document_stats(elems)
             kept == KeptHeadings(HeadingCandidates(elems))
         IN {[level |-> kept[i].level, size |-> kept[i].font_size,
              bold |-> elems[j].is_bold,
              sized |-> PatternLevel(kept[i].text) = None] :
                <<i, j>> \in {p \in (1..Len(kept)) \X (1..Len(elems)) :
                    /\ elems[p[2]].text = kept[p[1]].text
                    /\ elems[p[2]].page = kept[p[1]].page
                    /\ elems[p[2]].font_size = kept[p[1]].font_size
                    /\ m7_is_likely_heading(elems[p[2]], doc_stats)}}
    ELSE LET levelled == LevelledHeadings(TopGroups(group_by_font_properties(
                             PotentialHeadings(extract_formatted_spans(Spans)))))
         IN {[level |-> levelled[i].level, size |-> levelled[i].heading.size,
              bold |-> HasFlag(levelled[i].heading.flags, 16),
              sized |-> TRUE] : i \in 1..Len(levelled)}

\* The accepted candidates of main.py and of main4.py with the level that
\* group_by_font_properties and assign_heading_levels give them.
LevelledCandidates ==
    LET spans == extract_formatted_spans(Spans) IN
    IF prog = "main"
    THEN LevelledHeadings(TopGroups(group_by_font_properties(PotentialHeadings(spans))))
    ELSE LevelledHeadings(LimitedGroups(TopGroups(group_by_font_properties(
             FilteredIfMany(m4_PotentialHeadings(spans),
                            m4_calculate_document_stats(spans))))))

\* C1: the pages of the emitted outline never decrease from one entry to the
\* next, in the outline of assign_heading_levels (main.py), of
\* deduplicate_and_limit (main7.py) and of every branch of process_pdf.
C1_PagesNonDecreasing ==
    HasReturned /\ prog \in {"main", "main7", "process_pdfs"}
    => \A i \in 1..(Len(result.outline) - 1) :
           result.outline[i].page <= result.outline[i + 1].page

\* C2: no two entries of the emitted outline have the same page and the same
\* lower-cased, trimmed text, in the bold fallback of process_pdf, in
\* deduplicate_and_limit (main7.py) and in classify_headings_multilingual
\* (main.py).
C2_NoDuplicateEntries ==
    /\ HasReturned
    /\ \/ prog \in {"main", "main7"}
       \/ /\ prog = "process_pdfs" /\ filename = "doc.pdf"
          /\ HeadingSource(toc, pages) = "bold"
    => \A i, j \in 1..Len(result.outline) :
           /\ i < j
           /\ result.outline[i].page = result.outline[j].page
           => Strip(Lower(result.outline[i].text))
                  # Strip(Lower(result.outline[j].text))

\* C3: the title of every returned document is a non-empty string, never the
\* empty string and never None, in process_pdf and in extract_title of
\* main4.py.
C3_TitleNonEmpty ==
    HasReturned /\ prog \in {"process_pdfs", "main4"}
    => result.title # None /\ result.title # <<>>

C6_LargerSizeNoDeeperLevel ==
    pc = "done" /\ prog \in {"main", "main7"}
    => \A A, B \in StyledEntries :
           A.bold = B.bold /\ Round1(A.size) > Round1(B.size)
           => LevelNumber(A.level) <= LevelNumber(B.level)

\* C6 amended: the same, for the entries whose level is derived from the
\* size: all entries of main.py, and in main7.py the entries whose text has
\* no numbering and no Chapter, Part or Section keyword.
C6_LargerSizeNoDeeperSizedLevel ==
    pc = "done" /\ prog \in {"main", "main7"}
    => \A A, B \in StyledEntries :
           /\ A.sized /\ B.sized
           /\ A.bold = B.bold /\ Round1(A.size) > Round1(B.size)
           => LevelNumber(A.level) <= LevelNumber(B.level)

\* C6 witness: main7.py has given two entries of the same bold flag, both
\* without numbering or keyword, different levels by their sizes.
C6_Witness ==
    /\ pc = "done" /\ prog = "main7"
    /\ \E A, B \in StyledEntries :
           /\ A.sized /\ B.sized
           /\ A.bold = B.bold /\ Round1(A.size) > Round1(B.size)
           /\ LevelNumber(A.level) < LevelNumber(B.level)

\* C7: two accepted candidates of the same style signature (the font size
\* rounded to one decimal, the bold flag) get the same level from
\* group_by_font_properties and assign_heading_levels, in main.py and in
\* main4.py.
C7_SameStyleSameLevel ==
    pc = "done" /\ prog \in {"main", "main4"}
    => \A i, j \in 1..Len(LevelledCandidates) :
           LET A == LevelledCandidates[i]
               B == LevelledCandidates[j]
           IN /\ Round1(A.heading.size) = Round1(B.heading.size)
              /\ HasFlag(A.heading.flags, 16) = HasFlag(B.heading.flags, 16)
              => A.level = B.level

\* C8: the outline has at most 15 entries of a level after
\* deduplicate_and_limit (main7.py) and at most 10 entries of a level after
\* assign_heading_levels of main4.py, however many candidates were accepted.
C8_LevelCap ==
    HasReturned
    => \A level \in SchemaLevels :
           /\ prog = "main7"
              => CountAtLevel(result.outline, level) <= max_headings_per_level
           /\ prog = "main4" => CountAtLevel(result.outline, level) <= 10

\* C8 witness: main7.py had more than 15 candidates of level H3, of distinct
\* texts, and its outline has exactly 15 entries of level H3.
C8_Witness ==
    /\ HasReturned /\ prog = "main7"
    /\ LET candidates == HeadingCandidates(extract_text_elements(Spans))
       IN Cardinality({Strip(Lower(candidates[i].text)) :
               i \in {k \in 1..Len(candidates) : candidates[k].level = H3}})
              > max_headings_per_level
    /\ CountAtLevel(result.outline, H3) = max_headings_per_level

\* C9: every entry of the emitted outline of process_pdf has a text that is
\* not empty after trimming, in the branch of the embedded table of
\* contents, of the markdown headings and of the bold fallback.
C9_TextNonEmpty ==
    HasReturned /\ prog = "process_pdfs"
    => \A i \in 1..Len(result.outline) : Strip(result.outline[i].text) # <<>>

\* C10: every entry of the emitted outline of process_pdf has a level in
\* H1..H6, whatever the depth of a markdown heading and the level of an
\* entry of the embedded table of contents.
C10_LevelInSchema ==
    HasReturned /\ prog = "process_pdfs"
    => \A i \in 1..Len(result.outline) : result.outline[i].level \in SchemaLevels

\* The outline entries of main2.py and of main6.py in the order they are
\* emitted, each with the top of the box of the fragment it was made from
\* (for a merged heading of main6.py: of the first of its fragments).
PositionedEntries ==
    IF prog = "main2"
    THEN PositionedOutline(m2_potential_headings(m2_all_spans(Spans)), m2_all_spans(Spans))
    ELSE m6_final_headings(Spans)

\* C11: the emitted outline of PDFOutlineExtractor.extract (main2.py) and of
\* extract_headings_from_pdf (main6.py) is sorted by page and, on a page, by
\* the top of the source fragment: an entry never comes before an entry of
\* the same page whose fragment is higher on the page.
C11_SortedByPageAndPosition ==
    /\ HasReturned /\ prog \in {"main2", "main6"}
    /\ result.outline = WithoutTop(PositionedEntries)
    => \A i, j \in 1..Len(PositionedEntries) :
           i < j => \/ PositionedEntries[i].page < PositionedEntries[j].page
                    \/ /\ PositionedEntries[i].page = PositionedEntries[j].page
                       /\ PositionedEntries[i].top <= PositionedEntries[j].top

\* The labels of form fields: "S.No", "Name", "Date", "Age", "Rs.", a bare
\* acronym of two to four capital letters, a bare number with its dot.
IsFormLabel(text) ==
    \/ text \in { <<"S", ".", "N", "o">>, <<"N", "a", "m", "e">>, <<"D", "a", "t", "e">>,
                  <<"A", "g", "e">>, <<"R", "s", ".">> }
    \/ Match(Cat(<<Rep(AZ, 2, 4), AtEnd>>), text)
    \/ Match(Cat(<<Plus(DigitCh), Lit(<<".">>), AtEnd>>), text)

\* C12: no entry of the outline of main4.py or of main7.py has the text of a
\* form-field label, whatever the font size, the bold flag and the heading
\* score of the span: is_form_field drops the span before it is scored.
C12_FormLabelsNeverInOutline ==
    HasReturned /\ prog \in {"main4", "main7"}
    => \A i \in 1..Len(result.outline) : ~IsFormLabel(Strip(result.outline[i].text))

\* C12 witness: main4.py has returned for a document that has a form-field
\* label in a bold span that no other filter drops and whose score is at
\* least 2, beside a heading that is in the outline.
C12_Witness ==
    /\ HasReturned /\ prog = "main4" /\ result.outline # <<>>
    /\ \E i \in 1..Len(UsableSpans) :
          /\ IsFormLabel(UsableSpans[i].text)
          /\ HasFlag(UsableSpans[i].flags, 16)
          /\ ~is_page_number(UsableSpans[i].text)
          /\ ~is_footer_header(UsableSpans[i].text)
          /\ is_meaningful_heading(UsableSpans[i].text)
          /\ m4_heading_score(UsableSpans[i], m4_calculate_document_stats(UsableSpans)) >= 2
          /\ \A k \in 1..Len(result.outline) :
                result.outline[k].text # UsableSpans[i].text

\* C13: the extraction of a document never raises, whatever the pages, the
\* font sizes, the texts and the metadata are: process_pdf (process_pdfs.py)
\* and process_document (main7.py) always return an OutlineDocument, and the
\* ratio font_size / avg_font_size of is_likely_heading is never a division
\* by zero.
C13_NeverRaises ==
    pc = "done" /\ prog \in {"process_pdfs", "main7"} => result.status = "ok"

\* The loop of the batch has ended and every file that processes without an
\* exception and whose output can be written has its JSON output.
BatchDone ==
    /\ pc = "exit"
    /\ \A i \in 1..Len(batch) :
          batch[i].outcome.status = "ok" /\ batch[i].writable
          => i \in written

\* C14: in the loop over the PDF files of main() (process_pdfs.py, main.py,
\* main7.py) a failure while processing or writing one file does not stop
\* the loop: the loop comes to its end, every file has had its turn, and
\* every file that processes and writes without failure has its output,
\* whatever failed before it.
C14_LoopSurvivesFailures == <>BatchDone

\* The metadata title as the program normalises it: clean_text in
\* process_pdfs.py, str.strip in main4.py.
NormalMetadataTitle ==
    IF meta = None THEN <<>>
    ELSE IF prog = "process_pdfs" THEN Strip(clean_text(meta)) ELSE Strip(meta)

\* The first step of the title chain yields a value: the metadata title is
\* long enough (more than 5 characters) and is not merely a filename.
MetadataTitleUsable ==
    /\ Len(NormalMetadataTitle) > 5
    /\ ~EndsWith(NormalMetadataTitle, <<".", "p", "d", "f">>)
    /\ ~EndsWith(NormalMetadataTitle, <<".", "d", "o", "c">>)
    /\ ~EndsWith(NormalMetadataTitle, <<".", "d", "o", "c", "x">>)

\* The title that the later steps of the chain give: the title of the same
\* document without a metadata title.
TitleOfLaterSteps ==
    IF prog = "process_pdfs" THEN process_pdf(filename, toc, None, pages).title
    ELSE m4_extract_title(None, result.outline)

\* C15: the title of process_pdf (process_pdfs.py) and of extract_title
\* (main4.py) is the value of the first step of the chain that yields a
\* usable value: the metadata title when it is long enough and not merely a
\* filename, and only otherwise the value of the later steps (first-page
\* fragment, first-page line, first H1 entry, first entry, fallback).
C15_TitleIsFirstUsableStep ==
    HasReturned /\ filename = "doc.pdf" /\ prog \in {"process_pdfs", "main4"}
    => IF MetadataTitleUsable
       THEN Strip(result.title) = NormalMetadataTitle
       ELSE result.title = TitleOfLaterSteps

\* Numbering deeper than this is not told apart (the levels end at H6).
MaxDepth == 6

\* The depth of the numbered-section prefix of a text: 1 for "1.", 2 for
\* "1.1", 3 for "1.1.1", ...; 0 when the text does not begin with a number
\* and a dot.
NumberedTo(depth) ==
    Cat(<<Plus(DigitCh)>>
        \o [i \in 1..(depth - 1) |-> Cat(<<Lit(<<".">>), Plus(DigitCh)>>)])

NumberingDepth(text) ==
    IF ~Match(Cat(<<Plus(DigitCh), Lit(<<".">>)>>), text) THEN 0
    ELSE MaxOf({depth \in 1..MaxDepth : Match(NumberedTo(depth), text)})

\* The text begins with "Chapter N" or "Part N".
IsChapterOrPart(text) ==
    Match(Cat(<<Alt(<<Lit(<<"C", "h", "a", "p", "t", "e", "r">>), Lit(<<"P", "a", "r", "t">>)>>),
                Plus(SpaceCh), Plus(DigitCh)>>), text)

\* C16: an outline entry of main7.py or of main6.py whose text begins with a
\* numbered-section prefix has the level of the depth of the numbering, H1
\* for "1.", H2 for "1.1", H3 for "1.1.1", deeper ones down to H6 at most,
\* and an entry "Chapter N" or "Part N" of main7.py has H1, whatever the
\* font size is.
C16_LevelFromNumbering ==
    HasReturned /\ prog \in {"main6", "main7"}
    => \A i \in 1..Len(result.outline) :
           LET entry == result.outline[i] IN
           /\ NumberingDepth(entry.text) > 0
              => entry.level = Hn(Min(NumberingDepth(entry.text), 6))
           /\ prog = "main7" /\ IsChapterOrPart(entry.text) => entry.level = H1

\* The accepted candidates of main.py, of main2.py and of main4.py, each with
\* the level of the rank of its style among all the styles of the accepted
\* candidates: H1 for the first, H2 for the second, H3 for every other one.
RankedCandidates ==
    LET spans == extract_formatted_spans(Spans)
        ranked(groups) ==
            {[level |-> groups[g].level, text |-> groups[g].heading.text,
              page |-> groups[g].heading.page] : g \in 1..Len(groups)}
        styled(potential_headings) ==
            {[level |-> level_map(StyleRank(StyleKey(potential_headings[i]),
                                            potential_headings)),
              text |-> potential_headings[i].text,
              page |-> potential_headings[i].page] :
                 i \in 1..Len(potential_headings)}
    IN CASE prog = "main" ->
              ranked(LevelledHeadings(SortedBy(
                  group_by_font_properties(PotentialHeadings(spans)), GroupBefore)))
         [] prog = "main4" ->
              ranked(LevelledHeadings(LimitedGroups(SortedBy(
                  group_by_font_properties(
                      FilteredIfMany(m4_PotentialHeadings(spans),
                                     m4_calculate_document_stats(spans))),
                  GroupBefore))))
         [] OTHER -> styled(m2_potential_headings(m2_all_spans(Spans)))

\* C17: every accepted candidate of main.py, main2.py and main4.py is in the
\* outline with the level of the rank of its style, H1 for the top style, H2
\* for the next and H3 for every further style, the fourth and the later
\* ones too.
C17_EveryRankedStyleInOutline ==
    HasReturned /\ prog \in {"main", "main2", "main4"}
    => \A c \in RankedCandidates :
           \E i \in 1..Len(result.outline) : result.outline[i] = c

\* The heading candidates in the order of their discovery, before the
\* deduplication: of process_document (main7.py) and of the bold fallback of
\* process_pdf.
DiscoveredCandidates ==
    IF prog = "main7" THEN HeadingCandidates(extract_text_elements(Spans))
    ELSE AllBoldHeadings(pages)

\* the normalized text and the page of a candidate or of an entry
NormalizedKey(h) == <<Strip(Lower(h.text)), h.page>>

\* C18: of the candidates of one normalized (text, page), as "Overview" and
\* "overview" on one page, the outline of deduplicate_and_limit (main7.py)
\* and of the bold fallback of process_pdf keeps exactly one entry, the
\* first one discovered, with its text and its level.
C18_FirstOccurrenceKept ==
    /\ HasReturned
    /\ \/ prog = "main7"
       \/ /\ prog = "process_pdfs" /\ filename = "doc.pdf"
          /\ HeadingSource(toc, pages) = "bold"
    /\ Len(DiscoveredCandidates) <= max_headings_per_level
    => \A i \in 1..Len(DiscoveredCandidates) :
           LET first == DiscoveredCandidates[i]
               same == {k \in 1..Len(result.outline) :
                           NormalizedKey(result.outline[k]) = NormalizedKey(first)}
           IN (\A j \in 1..(i - 1) :
                   NormalizedKey(DiscoveredCandidates[j]) # NormalizedKey(first))
              => /\ Cardinality(same) = 1
                 /\ \A k \in same :
                       /\ Strip(result.outline[k].text) = Strip(first.text)
                       /\ result.outline[k].level = first.level

\* The headings of main6.py before the merge, in the order of the sort.
PreMergeHeadings == SortByPageAndBbox(m6_headings(Spans, m6_spans(Spans)))

\* the texts of the headings a..b, joined by one space
RECURSIVE JoinedTexts(_, _, _)
JoinedTexts(headings, a, b) ==
    IF a = b THEN headings[a].text
    ELSE headings[a].text \o <<" ">> \o JoinedTexts(headings, a + 1, b)

\* The entry is made of the headings a..b before the merge: they have its
\* page and its level, and its text is their texts in order, one space
\* between two of them.
MadeOfRun(entry, headings, a, b) ==
    /\ \A k \in a..b : /\ headings[k].page = entry.page
                       /\ headings[k].level = entry.level
    /\ entry.text = Strip(JoinedTexts(headings, a, b))

\* Every entry of the outline is made of a run of the headings.
MadeOfRuns(outline, headings) ==
    \A i \in 1..Len(outline) :
        \E a \in 1..Len(headings) :
            \E b \in a..Len(headings) : MadeOfRun(outline[i], headings, a, b)

\* An entry of the outline is made of two of the headings or more, and the
\* headings lie on two pages or have two levels.
MergedAmongOthers(outline, headings) ==
    /\ \E i \in 1..Len(outline) :
           \E a \in 1..Len(headings) :
               \E b \in (a + 1)..Len(headings) : MadeOfRun(outline[i], headings, a, b)
    /\ \E j, k \in 1..Len(headings) :
           \/ headings[j].page # headings[k].page
           \/ headings[j].level # headings[k].level

\* C19: every outline entry of main6.py is made of headings that follow one
\* another in the order before the merge, all on the page and at the level
\* of the entry, its text being their texts in order separated by one space:
\* headings of different pages or of different levels are never merged.
C19_MergedOnlyWithinPageAndLevel ==
    HasReturned /\ prog = "main6" => MadeOfRuns(result.outline, PreMergeHeadings)

\* A returned outline of main6.py with an entry merged from two headings or
\* more, in a document whose headings lie on two pages or have two levels.
C19_Witness ==
    HasReturned /\ prog = "main6" /\ MergedAmongOthers(result.outline, PreMergeHeadings)

\* The spans of main7.py and of main4.py that pass the filters applied before
\* the score, each with its score and with whether it is body text: not
\* bold, no larger than the base size (main7.py) or the average size
\* (main4.py), matching no heading pattern, neither title case nor all caps.
ScoredSpans ==
    LET elems == extract_text_elements(Spans)
        spans == extract_formatted_spans(Spans)
        scored7(doc_stats) ==
            {[text |-> elems[i].text,
              score |-> HeadingScore(elems[i], doc_stats),
              body |-> /\ ~elems[i].is_bold
                       /\ elems[i].font_size <= doc_stats.base_size
                       /\ ~matches_heading_pattern(elems[i].text)
                       /\ ~IsTitle(elems[i].text) /\ ~IsUpper(elems[i].text)] :
                i \in {k \in 1..Len(elems) : IsFilteredElement(elems[k], doc_stats)}}
        scored4(document_stats) ==
            {[text |-> spans[i].text,
              score |-> m4_heading_score(spans[i], document_stats),
              body |-> /\ ~HasFlag(spans[i].flags, 16)
                       /\ ~AboveAverage(spans[i].size, document_stats, 0)
                       /\ \A p \in 1..Len(m4_latin_heading_patterns) :
                              ~Match(m4_latin_heading_patterns[p], spans[i].text)
                       /\ ~IsTitle(spans[i].text) /\ ~IsUpper(spans[i].text)] :
                i \in {k \in 1..Len(spans) :
                          /\ ~is_page_number(spans[k].text)
                          /\ ~is_footer_header(spans[k].text)
                          /\ ~m4_is_form_field(spans[k].text)
                          /\ is_meaningful_heading(spans[k].text)}}
    IN IF prog = "main7" THEN scored7(m7_calculate_document_stats(elems))
       ELSE scored4(m4_calculate_document_stats(spans))

\* No limit of the later steps can remove an accepted span: the document
\* has at most max_headings_per_level spans for main7.py; for main4.py at
\* most ten spans, of at most three styles.
NoLimitApplies ==
    IF prog = "main7" THEN Len(Spans) <= max_headings_per_level
    ELSE /\ Len(Spans) <= 10
         /\ Cardinality({FontKey(Spans[i]) : i \in 1..Len(Spans)}) <= 3

\* the outline has an entry of the text (as the deduplication compares it)
InOutline(text) ==
    \E k \in 1..Len(result.outline) :
        Lower(Strip(result.outline[k].text)) = Lower(Strip(text))

\* C20: a span of main7.py or of main4.py that passes the filters is taken
\* for a heading exactly when its score is 2 or more, and body text (not
\* bold, no larger than the base or average size, no heading pattern, not
\* title case, not all caps) scores less than 2 and is not taken.
C20_AcceptedIffScoreAtLeastTwo ==
    HasReturned /\ prog \in {"main7", "main4"} /\ NoLimitApplies
    => \A s \in ScoredSpans :
           /\ InOutline(s.text) <=> s.score >= 2
           /\ s.body => s.score < 2 /\ ~InOutline(s.text)

\* A returned outline of main7.py or main4.py of a document with a span of
\* body text that was rejected and a span of score 2 or more that was taken.
C20_Witness ==
    /\ HasReturned /\ prog \in {"main7", "main4"} /\ NoLimitApplies
    /\ \E s \in ScoredSpans : s.body /\ ~InOutline(s.text)
    /\ \E s \in ScoredSpans : s.score >= 2 /\ InOutline(s.text)

\* The spans of the document in the top tenth or the bottom tenth of their
\* page that no span of the same text and page outside of these bands
\* doubles.
MarginSpans ==
    {s \in {Spans[i] : i \in 1..Len(Spans)} :
        /\ InPageMargin(s.y, BoxBottom(s), PageHeight)
        /\ ~\E i \in 1..Len(Spans) :
               /\ Spans[i].page = s.page
               /\ Strip(Spans[i].text) = Strip(s.text)
               /\ ~InPageMargin(Spans[i].y, BoxBottom(Spans[i]), PageHeight)}

\* C21: no outline entry of main2.py or main6.py is made from a fragment in
\* the top tenth or the bottom tenth of its page, whatever its size, its
\* boldness or its numbering, in every pass.
C21_NoEntryFromMargin ==
    HasReturned /\ prog \in {"main2", "main6"}
    => \A s \in MarginSpans :
           ~\E i \in 1..Len(result.outline) :
               /\ result.outline[i].text = preprocess_text(s.text)
               /\ result.outline[i].page = s.page + (IF prog = "main2" THEN 1 ELSE 0)

\* The document statistics of main7.py and of main4.py for the spans of the
\* state that survive the extraction.
DocumentStats ==
    IF prog = "main7" THEN m7_calculate_document_stats(extract_text_elements(Spans))
    ELSE m4_calculate_document_stats(extract_formatted_spans(Spans))

\* None of the spans of the document survives the extraction.
NoSpanSurvives ==
    IF prog = "main7" THEN extract_text_elements(Spans) = <<>>
    ELSE extract_formatted_spans(Spans) = <<>>

\* the statistics are the baseline: a base (most common) size of 12 and an
\* average size of 12
IsBaseline(stats) ==
    /\ stats.size_sum = 1200 * stats.size_count
    /\ IF prog = "main7" THEN stats.has_avg /\ stats.base_size = 1200
       ELSE stats.most_common_font_size = 1200

\* The statistics of main7.py for no element: a base size of 12 and a
\* large threshold of 14, without an average.
IsThresholdBaseline(stats) ==
    /\ stats.base_size = 1200
    /\ stats.large_threshold_n = 1400 * stats.size_count
    /\ ~stats.has_avg

Frequency(elems, size) == Cardinality({i \in 1..Len(elems) : elems[i].font_size = size})

\* The statistics are those of the elements: the base size is one of the
\* most frequent sizes, the average is the mean of the sizes, the large
\* threshold is max(base_size + 2, avg_size + 1) and is above the base size
\* (the average and the threshold are kept times the number of elements).
StatsOf(elems, stats) ==
    LET n == Len(elems)
        total == SumSeq([i \in 1..n |-> elems[i].font_size])
    IN /\ \E i \in 1..n : elems[i].font_size = stats.base_size
       /\ \A i \in 1..n :
              Frequency(elems, elems[i].font_size) <= Frequency(elems, stats.base_size)
       /\ stats.has_avg /\ stats.size_count = n /\ stats.size_sum = total
       /\ stats.large_threshold_n >= (stats.base_size + 200) * n
       /\ stats.large_threshold_n >= total + 100 * n
       /\ stats.large_threshold_n \in {(stats.base_size + 200) * n, total + 100 * n}
       /\ stats.large_threshold_n > stats.base_size * n

\* C23: for the elements of a document of main7.py, when there is one at
\* least, calculate_document_stats gives as base_size a size of maximal
\* frequency, as avg_size the mean of the sizes and as large_threshold
\* max(base_size + 2, avg_size + 1), which is greater than base_size.
C23_StatsOfNonEmptyList ==
    pc = "done" /\ prog = "main7" /\ ~NoSpanSurvives
    => StatsOf(extract_text_elements(Spans), DocumentStats)

\* Statistics of elements of two sizes or more, and whose large threshold
\* is avg_size + 1, greater than base_size + 2.
TwoSizesAndAverageAbove(elems, stats) ==
    /\ \E i, j \in 1..Len(elems) : elems[i].font_size # elems[j].font_size
    /\ stats.large_threshold_n > (stats.base_size + 200) * Len(elems)

C23_Witness ==
    /\ pc = "done" /\ prog = "main7" /\ ~NoSpanSurvives
    /\ TwoSizesAndAverageAbove(extract_text_elements(Spans), DocumentStats)

\* C24: for a text that detect_language_script takes for Thai,
\* preprocess_multilingual_text (main.py, main4.py) removes the whitespace at
\* the two ends only: the result is the text, in its NFKC form, without its
\* leading and trailing whitespace, every run of whitespace inside it as it
\* was.
C24_ThaiOnlyTrimmed ==
    /\ pc = "normalized" /\ prog \in {"main", "main4"}
    /\ detect_language_script(NFKC(raw_text)) = "thai"
    => normalized = Strip(NFKC(raw_text))

\* the entries without the space that process_pdf puts at the end of a text
EntryKeys(outline) ==
    {[level |-> outline[i].level, text |-> Strip(outline[i].text),
      page |-> outline[i].page] : i \in 1..Len(outline)}

\* The outline is taken from one source: the table of contents when it has
\* more than two entries, else the markdown headings when a page has one,
\* else the bold headings; every entry is an entry of that source and every
\* entry of that source is in the outline.
FromOneSource(outline, entries, doc_pages) ==
    EntryKeys(outline) =
        (IF Len(entries) > 2 THEN EntryKeys(TocOutline(entries))
         ELSE IF AllMarkdownHeadings(doc_pages) # <<>>
         THEN EntryKeys(AllMarkdownHeadings(doc_pages))
         ELSE EntryKeys(AllBoldHeadings(doc_pages)))

BoldDecisionsOfLine(line, s) ==
    IF HeadingMarks(s) > 0 THEN {}
    ELSE {is_likely_heading(clean_text(FindBold(line)[k]),
              BoldContext(StartsWith(s, <<"*", "*">>),
                          Len(s) = Len(FindBold(line)[k]) + 4)) :
          k \in {k \in 1..Len(FindBold(line)) : clean_text(FindBold(line)[k]) # <<>>}}

BoldDecisions(doc_pages) ==
    UNION {UNION {BoldDecisionsOfLine(doc_pages[i].md[j], Strip(doc_pages[i].md[j])) :
                  j \in 1..Len(doc_pages[i].md)} :
           i \in 1..Len(doc_pages)}

\* C26: is_likely_heading of process_pdfs answers is_heading exactly when the
\* confidence is above 0.4, and suggests H1 when the confidence is above 0.9,
\* H2 when it is above 0.7 and at most 0.9, and H3 otherwise.
C26_LevelFromConfidence ==
    prog = "process_pdfs" /\ pc = "done"
    => \A r \in BoldDecisions(pages) :
          /\ r.is_heading = (r.confidence > 4)
          /\ r.suggested_level =
                 IF r.confidence > 9 THEN H1
                 ELSE IF r.confidence > 7 THEN H2 ELSE H3

\* C27: the document handle an extraction call has opened is closed when the
\* call returns, on every return path: after a return no handle is open.
C27_HandleClosedAtReturn ==
    HasReturned => doc_handle # "open"

\* the font groups assign_heading_levels is called with (main.py, main4.py)
FontGroups ==
    LET spans == extract_formatted_spans(Spans) IN
    IF prog = "main"
    THEN group_by_font_properties(PotentialHeadings(spans))
    ELSE group_by_font_properties(
             FilteredIfMany(m4_PotentialHeadings(spans),
                            m4_calculate_document_stats(spans)))

OutlineLevels == {result.outline[i].level : i \in 1..Len(result.outline)}

\* C28: the levels of assign_heading_levels (main.py, main4.py) are
\* contiguous from H1: with a font group the outline has an H1 entry, it has
\* an H2 entry only with an H1 entry and an H3 entry only with an H2 entry,
\* and it has no entry of another level.
C28_LevelsContiguousFromH1 ==
    HasReturned /\ prog \in {"main", "main4"}
    => /\ OutlineLevels \subseteq {H1, H2, H3}
       /\ FontGroups # <<>> => H1 \in OutlineLevels
       /\ H2 \in OutlineLevels => H1 \in OutlineLevels
       /\ H3 \in OutlineLevels => H2 \in OutlineLevels

\* a document of more than three font groups whose outline has the three levels
C28_Witness ==
    /\ HasReturned /\ prog \in {"main", "main4"}
    /\ Len(FontGroups) > 3
    /\ OutlineLevels = {H1, H2, H3}

\* the spans classify_headings_multilingual is called with, and those of
\* them that pass the noise filters (main.py, main4.py)
ClassifiedSpans == extract_formatted_spans(Spans)

PassedNoiseFilters ==
    IF prog = "main" THEN PotentialHeadings(ClassifiedSpans)
    ELSE m4_PotentialHeadings(ClassifiedSpans)

EntriesAmong(outline, passed) ==
    /\ \A i \in 1..Len(outline) :
          \E k \in 1..Len(passed) :
             /\ passed[k].text = outline[i].text
             /\ passed[k].page = outline[i].page
    /\ Len(outline) <= Len(passed)

IsTrimmedAndSingleSpaced(text) ==
    /\ text # <<>> => text[1] \notin Whitespace /\ text[Len(text)] \notin Whitespace
    /\ \A i \in 1..(Len(text) - 1) :
          ~(text[i] \in Whitespace /\ text[i + 1] \in Whitespace)

\* C30: the normalization of text is idempotent: preprocess_text (main2.py)
\* and clean_text (process_pdfs.py, main7.py) applied to their own output
\* return it unchanged, and the output has no whitespace at either end and
\* no two whitespace characters in a row.
C30_NormalizationIdempotent ==
    pc = "normalized" /\ prog \in {"main2", "process_pdfs", "main7"}
    => /\ Normalization(prog, normalized) = normalized
       /\ IsTrimmedAndSingleSpaced(normalized)

\* a text that ends with whitespace, has two whitespace characters in a row
\* and is not all whitespace has been normalized
C30_Witness ==
    /\ pc = "normalized" /\ prog \in {"main2", "process_pdfs", "main7"}
    /\ normalized # <<>>
    /\ raw_text[Len(raw_text)] \in Whitespace
    /\ \E i \in 1..(Len(raw_text) - 1) :
          raw_text[i] \in Whitespace /\ raw_text[i + 1] \in Whitespace
    /\ Normalization(prog, normalized) = normalized

====
